---- MODULE Spec2Model ----
(***************************************************************************)
(* A model of the FIX 4.2 session engine of fix_engine: the sequence      *)
(* discipline of the reader thread (message_handling.rs), the admin and   *)
(* business handlers, the heartbeat ticker and the console of             *)
(* connection.rs, the sequence store (sequence.rs), the order store       *)
(* (orderstore.rs) and the session flags of main.rs.                      *)
(*                                                                         *)
(* One session is modelled: the main thread (initial Logon, then the      *)
(* console), the reader thread and the ticker thread.  Every send is      *)
(* split where the code can be interleaved or can fail: the message is    *)
(* built from get_outgoing(), written to the socket, and only then is     *)
(* increment_outgoing() called.  The steps of one handler that touch      *)
(* nothing another thread writes in between are one action.               *)
(***************************************************************************)
EXTENDS Integers, Sequences, FiniteSets, TLC

\* ------------------------------------------------------------------ bounds
MaxIn      == 2   \* inbound reads the peer makes the reader see
MaxTime    == 1   \* seconds of wall clock that pass
Capacity   == 1   \* orders whose serialization fits the mapped region
MaxOrdCalls == 3  \* calls on the order store
MaxSends   == 3   \* calls of send_message
MsgBytes   == 2   \* length of an outbound message
MaxRestarts == 1  \* times the process is started again on its files
MaxCalls   == 3   \* calls made on the sequence store when it is followed step by step
MaxTicks   == 4   \* clock ticks that pass when the clock is followed tick by tick
TicksPerSecond == 2   \* resolution of the clock: ticks in one second
MaxCmd     == 1   \* lines typed at the console
MaxInitSeq == 2   \* largest counter value found in the sequence file at start
MaxOrderId == 2   \* largest ClOrdID / OrigClOrdID of an inbound order message
MaxPairSeq == 4   \* largest MsgSeqNum either of two connected engines sends

\* The peer numbers its messages up to one past what the file can hold, and
\* asks for a reset to any number the file can hold.
MaxSeqIn    == MaxInitSeq + 1
MaxNewSeqNo == MaxInitSeq

\* [session] heart_bt_int of config/setting.conf, in seconds.
heart_bt_int == 1

\* A field that is absent, and a field whose text is not an unsigned integer.
NoVal  == 0 - 1
BadNum == 0 - 2

\* AtomicDateTime keeps time.timestamp(): the whole seconds of an instant.
timestamp(t) == t \div TicksPerSecond

\* struct SequenceNumber.
SequenceNumber(inc, out) == [incoming |-> inc, outgoing |-> out]

\* The sequence file by its content: no file, a file of no bytes, text that
\* is not a record, or the text of a record by its two numbers.
NoFile == <<"none">>
EmptyFile == <<>>
CorruptFile == <<"invalid_json">>

\* serde_json::to_string of a SequenceNumber.
to_string(seq) == <<"incoming", seq.incoming, "outgoing", seq.outgoing>>

\* serde_json::from_str succeeds on the text of a record only.
IsRecordText(content) == Len(content) = 4 /\ content[1] = "incoming"

\* The two numbers of the record are loaded into each other's field.
new_Swapped(content) ==
    IF IsRecordText(content)
    THEN SequenceNumber(content[4], content[2])
    ELSE SequenceNumber(1, 1)

\* SequenceNumberStore::new: the counters loaded from the file, 1 and 1
\* when the file is missing, unreadable or does not parse.
new(content) ==
    IF IsRecordText(content)
    THEN SequenceNumber(content[2], content[4])
    ELSE SequenceNumber(1, 1)

Reader == "reader"
Ticker == "ticker"
Main   == "main"
Threads == {Main, Reader, Ticker}

VARIABLES
    isInitiator,    \* IS_INITIATOR
    enableCmdLine,  \* ENABLE_CMD_LINE
    incoming,       \* SequenceNumber.incoming
    outgoing,       \* SequenceNumber.outgoing
    sentLogon,      \* SENT_LOGON
    receivedLogon,  \* RECEIVED_LOGON
    isLoggedOn,     \* IS_LOGGED_ON
    lastSentTime,   \* LAST_SENT_TIME
    now,            \* Utc::now(), in whole seconds
    seqFile,        \* the content of the sequence file
    seqLock,        \* the thread that holds the store's Mutex, or "free"
    call,           \* each thread's call on the store: operation, argument, position
    returned,       \* calls on the store that have returned, by operation
    sleepLeft,      \* ticks until the ticker's one-second sleep returns
    sentAt,         \* the instant handed to the last LAST_SENT_TIME.store
    orders,         \* OrderStore.orders
    ordFile,        \* the bytes of the mapped order file
    ocall,          \* each thread's call on the order store
    oreturned,      \* calls on the order store that returned, by result
    sending,        \* each thread's call of send_message
    streamLock,     \* the holder of each Mutex<TcpStream>
    wire,           \* the chunks written to the socket, in order
    checked,        \* the FixMessage and the lists handed to validate
    valid,          \* what validate returned for it
    encoded,        \* the message an encoder returned, with its arguments
    decoded,        \* what fixmsg2msgtype returned for it
    eng,            \* two connected engines: counters and flags of each
    chan,           \* two connected engines: the messages on the way to each
    pc,             \* where each thread is
    resp,           \* the outbound message each thread has built
    wrote,          \* the result of each thread's last socket write
    path,           \* the send path the reader is on
    inType,         \* the type name fixmsg2msgtype gave the reader
    branch,         \* how MsgSeqNum compared with the expected number
    handler,        \* the handler process_fix_message called
    exited,         \* "no", or what ended the process
    nIn,            \* number of reads the reader has made
    nCmd,           \* number of console lines read
    initSeq,        \* the counters SequenceNumberStore::new loaded
    restarts,       \* times the process was started again
    accepted,       \* number of inbound messages found in sequence
    tickerSends     \* number of messages the ticker has written

vars == <<isInitiator, enableCmdLine, incoming, outgoing,
          sentLogon, receivedLogon, isLoggedOn, lastSentTime, now, sleepLeft, sentAt, seqFile, seqLock, call, returned,
          orders, ordFile, ocall, oreturned, sending, streamLock, wire, checked, valid, encoded, decoded, eng, chan, pc, resp, wrote, path, inType, branch, handler, exited,
          nIn, nCmd, initSeq, restarts, accepted, tickerSends>>

\* ---------------------------------------------------------- message types
\* The type names fixmsg2msgtype returns: the enum description of tag 35.
AdminTypes == {"LOGON", "LOGOUT", "HEARTBEAT", "TEST_REQUEST",
               "RESEND_REQUEST", "SEQUENCE_RESET", "REJECT"}
OrderTypes == {"NEW_ORDER_SINGLE", "ORDER_CANCEL_REPLACE_REQUEST",
               "ORDER_CANCEL_REQUEST"}
OtherAppTypes == {"EXECUTION_REPORT", "ORDER_STATUS_REQUEST", "UnknownTag"}

\* [session] admin_messages of config/setting.conf, upper-cased by main.
admin_msg_list == AdminTypes

\* The list is compared as configured, without the upper-casing of main.
is_admin_message_NoUpper(msgtype) ==
    msgtype \in {"logon", "logout", "heartbeat", "test_request",
                 "resend_request", "sequence_reset", "reject"}

is_admin_message(msgtype) == msgtype \in admin_msg_list

\* ------------------------------------------------------- inbound messages
\* An inbound buffer, by what the code looks at:
\*   utf8, isfix   handle_incoming_message: from_utf8 and contains("8=FIX")
\*   parse         FixMessage::parse: every non-empty part has an '='
\*   hdr           every header-required field is present and non-empty
\*   bodyLength    tag 9: "ok" (parses as usize), "bad", or "absent"
\*   mt35          tag 35: "known", "unknown" (not a valid type), "absent",
\*                 or "nodef" (valid type without message definition)
\*   req           every field the message definition requires is present
\*   type          the type name fixmsg2msgtype returns
\*   seq           MsgSeqNum as parsed to u64, NoVal or BadNum
\*   newSeqNo      NewSeqNo (36), clOrdID (11), origClOrdID (41)
\*   ordFields     the order fields the handlers read: "ok", "missing"
\*                 (one of them absent) or "badnum" (OrderQty or Price
\*                 is not an unsigned integer)
BaseIn == [utf8 |-> TRUE, isfix |-> TRUE, parse |-> TRUE, hdr |-> TRUE,
           bodyLength |-> "ok", mt35 |-> "known", req |-> TRUE,
           type |-> "HEARTBEAT", seq |-> 1, newSeqNo |-> NoVal,
           clOrdID |-> NoVal, origClOrdID |-> NoVal, ordFields |-> "ok"]

SeqsIn == 1..MaxSeqIn

PlainIn ==
    { [BaseIn EXCEPT !.type = t, !.seq = s] :
        t \in (AdminTypes \ {"SEQUENCE_RESET"}) \cup OtherAppTypes,
        s \in SeqsIn }

SeqResetIn ==
    { [BaseIn EXCEPT !.type = "SEQUENCE_RESET", !.seq = s, !.newSeqNo = n] :
        s \in SeqsIn, n \in (1..MaxNewSeqNo) \cup {BadNum} }

NewOrderIn ==
    { [BaseIn EXCEPT !.type = "NEW_ORDER_SINGLE", !.seq = s,
                     !.clOrdID = c] :
        s \in SeqsIn, c \in 1..MaxOrderId }
    \cup
    { [BaseIn EXCEPT !.type = "NEW_ORDER_SINGLE", !.seq = s,
                     !.clOrdID = 1, !.ordFields = f] :
        s \in SeqsIn, f \in {"missing", "badnum"} }

CancelTypes == {"ORDER_CANCEL_REPLACE_REQUEST", "ORDER_CANCEL_REQUEST"}

CancelIn ==
    { [BaseIn EXCEPT !.type = t, !.seq = s, !.clOrdID = c,
                     !.origClOrdID = o] :
        t \in CancelTypes, s \in SeqsIn,
        c \in 1..MaxOrderId, o \in 1..MaxOrderId }
    \cup
    { [BaseIn EXCEPT !.type = t, !.seq = s, !.clOrdID = 1,
                     !.origClOrdID = 1, !.ordFields = f] :
        t \in CancelTypes, s \in SeqsIn, f \in {"missing", "badnum"} }

\* Buffers that are dropped before the sequence check, one per reason.
BrokenIn ==
    { [BaseIn EXCEPT !.utf8 = FALSE],
      [BaseIn EXCEPT !.isfix = FALSE],
      [BaseIn EXCEPT !.parse = FALSE],
      [BaseIn EXCEPT !.hdr = FALSE],
      [BaseIn EXCEPT !.bodyLength = "bad"],
      [BaseIn EXCEPT !.mt35 = "unknown"],
      [BaseIn EXCEPT !.mt35 = "absent"],
      [BaseIn EXCEPT !.mt35 = "nodef"],
      [BaseIn EXCEPT !.req = FALSE],
      [BaseIn EXCEPT !.seq = BadNum] }

InboundMsgs == PlainIn \cup SeqResetIn \cup NewOrderIn \cup CancelIn \cup BrokenIn

\* A tag that FixMessage::parse did not find in the raw message.
Absent == "absent"

\* The tags of the messages handed to validate, and the values of each.
ValidatedTags == {"8", "9", "35", "11"}
TagValues ==
    [ValidatedTags |-> {}] @@
    ("8" :> {Absent, "", "FIX.4.2"}) @@
    ("9" :> {Absent, "", "65", "abc", "-1"}) @@
    ("35" :> {Absent, "", "D", "Z", "C", "E"}) @@
    ("11" :> {Absent, "", "1"})

\* The maps FixMessage::parse builds.
FixFields == {f \in [ValidatedTags -> UNION {TagValues[t] : t \in ValidatedTags}] :
                 \A t \in ValidatedTags : f[t] \in TagValues[t]}

\* required_fields: the required fields of the header of the payload
\* dictionary, or none when the dictionary has no header.
RequiredFieldLists == {{"8", "9", "35"}, {"8", "35"}, {}}

\* valid_msg_types: the types of the data dictionary.
valid_msg_types == {"D", "C", "E"}

\* msgnumber_fields_map: D has a definition that requires ClOrdID, E has
\* one without a field map, C has none.
NoFieldMap == {"none"}
msgnumber_fields_map == ("D" :> {"11"}) @@ ("E" :> NoFieldMap)

\* str::parse::<usize>: decimal digits only.
ParsesUsize(v) == v \in {"65"}

\* FixMessage::validate on the map of a parsed message.
validate_fields(fields, required_fields) ==
    IF \E f \in required_fields : fields[f] \in {Absent, ""}
    THEN FALSE
    ELSE IF fields["9"] # Absent /\ (~ParsesUsize(fields["9"]) \/ fields["9"] = "")
    THEN FALSE
    ELSE IF fields["35"] = Absent
    THEN FALSE
    ELSE IF fields["35"] \notin valid_msg_types \/ fields["35"] = ""
    THEN FALSE
    ELSE IF fields["35"] \notin DOMAIN msgnumber_fields_map
    THEN FALSE
    ELSE IF msgnumber_fields_map[fields["35"]] = NoFieldMap
    THEN FALSE
    ELSE \A f \in msgnumber_fields_map[fields["35"]] : fields[f] \notin {Absent, ""}

\* No message has been handed to validate.
NoCheck == [parsed |-> FALSE, fields |-> [t \in ValidatedTags |-> Absent],
            required_fields |-> {}]

\* FixMessage::validate.
validate(m) ==
    /\ m.hdr
    /\ m.bodyLength # "bad"
    /\ m.mt35 = "known"
    /\ m.req

\* What process_fix_message requires before it looks at the sequence number.
Validated(m) == m.utf8 /\ m.isfix /\ m.parse /\ validate(m) /\ m.seq >= 0

\* ------------------------------------------------------ outbound messages
\* An outbound message, by the fields the handlers set: the template key it
\* was built from, MsgSeqNum (34), BeginSeqNo (7), EndSeqNo (16),
\* NewSeqNo (36), the two numbers named in Text (58), OrderID (37),
\* ExecType (150) and OrdStatus (39).
BaseOut == [type |-> "", seq |-> NoVal, beginSeqNo |-> NoVal,
            endSeqNo |-> NoVal, newSeqNo |-> NoVal, textExpected |-> NoVal,
            textReceived |-> NoVal, orderID |-> NoVal, execType |-> NoVal,
            ordStatus |-> NoVal]

\* The empty string a handler returns when it has nothing to send.
EmptyResponse == BaseOut

\* The templates of reference/predefined_msg.json, keyed by message name.
predefined_msg(msgtype) ==
    IF msgtype = "Resend_Request"
    THEN [BaseOut EXCEPT !.type = msgtype, !.beginSeqNo = 0, !.endSeqNo = 0]
    ELSE [BaseOut EXCEPT !.type = msgtype]

\* MsgSeqNum is set to the number after the one passed in.
msgtype2fixmsg_NextSeq(msgtype, override_map, msg_seq_num) ==
    LET t == predefined_msg(msgtype)
    IN  [f \in DOMAIN t |->
            IF f = "seq" THEN msg_seq_num + 1
            ELSE IF f \in DOMAIN override_map THEN override_map[f]
            ELSE t[f]]

\* msgtype2fixmsg: the template with override_map laid over it and
\* MsgSeqNum set to msg_seq_num.
msgtype2fixmsg(msgtype, override_map, msg_seq_num) ==
    LET t == predefined_msg(msgtype)
    IN  [f \in DOMAIN t |->
            IF f = "seq" THEN msg_seq_num
            ELSE IF f \in DOMAIN override_map THEN override_map[f]
            ELSE t[f]]

NoOverride == [x \in {} |-> NoVal]

\* fixmap2fixmsg: the field map is the template; MsgSeqNum is msg_seq_num.
fixmap2fixmsg(m, msg_seq_num) ==
    [BaseOut EXCEPT !.type = m.type, !.seq = msg_seq_num,
                    !.newSeqNo = m.newSeqNo, !.orderID = NoVal]

\* prepare_execution_report: insert_if_some_and_not_empty of each argument.
prepare_execution_report(orderid, exectype, ordstatus) ==
    LET given == {<<"orderID", orderid>>, <<"execType", exectype>>,
                  <<"ordStatus", ordstatus>>}
        keys  == {p[1] : p \in {q \in given : q[2] # NoVal}}
    IN  [k \in keys |-> (CHOOSE p \in given : p[1] = k)[2]]

\* ------------------------------------------------------------ order store
Order(status) == [ordstatus |-> status]

\* OrderStore::add_order: insert, whether or not the id is there already.
add_order(store, id, order) ==
    [i \in (DOMAIN store) \cup {id} |-> IF i = id THEN order ELSE store[i]]

\* OrderStore::update_order: insert only when the id is there already.
update_order(store, id, order) ==
    IF id \in DOMAIN store THEN add_order(store, id, order) ELSE store

\* OrderStore::remove_order: the map without the id.
remove_order(store, id) == [i \in (DOMAIN store) \ {id} |-> store[i]]

\* The byte that stands for an order's fields in the serialized map.
StatusByte == [New |-> 1, Replaced |-> 2, Canceled |-> 3, Rejected |-> 4]
StatusOf(byte) == CHOOSE st \in DOMAIN StatusByte : StatusByte[st] = byte

\* The entries of the map, one after the other.
RECURSIVE entries(_, _)
entries(store, ids) ==
    IF ids = {} THEN <<>>
    ELSE LET i == CHOOSE x \in ids : \A y \in ids : x <= y
         IN  <<i, StatusByte[store[i].ordstatus]>> \o entries(store, ids \ {i})

\* bincode::serialize of the map: the number of entries, then the entries.
serialize(store) == <<Cardinality(DOMAIN store)>> \o entries(store, DOMAIN store)

\* bincode::deserialize: the map the bytes describe; what follows the last
\* entry is not read.
deserialize(bytes) ==
    [i \in {bytes[2 * k] : k \in 1..bytes[1]} |->
        Order(StatusOf(bytes[1 + 2 * (CHOOSE k \in 1..bytes[1] : bytes[2 * k] = i)]))]

\* The length of the mapped region that OrderStore::new sets.
MmapLen == 1 + 2 * Capacity

\* file.set_len on a file that OpenOptions created: zeros.
ZeroFile == [k \in 1..MmapLen |-> 0]

\* OrderStore::persist fails when the serialized map is longer than the
\* region.
Fits(bytes) == Len(bytes) <= MmapLen

\* mmap[..len].copy_from_slice: the head of the region is overwritten, the
\* rest is left as it is.
copy_from_slice(region, bytes) ==
    bytes \o SubSeq(region, Len(bytes) + 1, Len(region))

\* OrderStore::persist: the region after it ran on the map.
persist(store, region) ==
    IF Fits(serialize(store))
    THEN copy_from_slice(region, serialize(store))
    ELSE region

\* The results of a call on the order store.
OrderResults == {"ok", "not_found", "capacity"}

\* The Mutex each thread hands to send_message: handle_cmd_line the one
\* around input_stream, the ticker the one around tick_stream, the reader
\* one it builds around a clone of the stream for the reply.
StreamMutexes == {"input_stream", "tick_stream", "reply_stream"}
MutexOf(t) ==
    CASE t = Main -> "input_stream"
      [] t = Ticker -> "tick_stream"
      [] OTHER -> "reply_stream"

\* A thread that is not inside send_message.
NoSend == [at |-> "idle", left |-> 0, n |-> 0]

\* A thread that is not inside the order store.
NoOrderCall == [op |-> "none", at |-> "idle", id |-> NoVal,
                status |-> "", bytes |-> <<>>,
                old |-> [i \in {} |-> Order("New")]]

\* The Order built by add_order_to_store and update_order_in_store panics
\* when ClOrdID, OrderQty or Price does not parse as u64.
OrderParses(m) == m.ordFields = "ok" /\ m.clOrdID >= 0

\* The order of a message with missing fields is stored all the same.
handle_new_order_single_StoreRejected(m, store, out) ==
    IF m.ordFields # "missing"
    THEN IF ~OrderParses(m)
         THEN [orders |-> store, response |-> EmptyResponse, panicked |-> TRUE]
         ELSE [orders |-> add_order(store, m.clOrdID, Order("New")),
               response |->
                   IF isInitiator THEN EmptyResponse
                   ELSE msgtype2fixmsg("Execution_Report",
                            prepare_execution_report(m.clOrdID, 0, 0), out),
               panicked |-> FALSE]
    ELSE [orders |-> add_order(store, m.clOrdID, Order("Rejected")),
          response |->
              IF isInitiator THEN EmptyResponse
              ELSE msgtype2fixmsg("Execution_Report",
                       prepare_execution_report(m.clOrdID, 8, 8), out),
          panicked |-> FALSE]

\* handle_new_order_single: the new store, the response, whether it panicked.
handle_new_order_single(m, store, out) ==
    IF m.ordFields # "missing"
    THEN IF ~OrderParses(m)
         THEN [orders |-> store, response |-> EmptyResponse, panicked |-> TRUE]
         ELSE [orders |-> add_order(store, m.clOrdID, Order("New")),
               response |->
                   IF isInitiator THEN EmptyResponse
                   ELSE msgtype2fixmsg("Execution_Report",
                            prepare_execution_report(m.clOrdID, 0, 0), out),
               panicked |-> FALSE]
    ELSE [orders |-> store,
          response |->
              IF isInitiator THEN EmptyResponse
              ELSE msgtype2fixmsg("Execution_Report",
                       prepare_execution_report(m.clOrdID, 8, 8), out),
          panicked |-> FALSE]

\* The reply is built without looking at IS_INITIATOR.
handle_order_cancel_AlwaysReplies(m, store, out, status, code) ==
    IF m.ordFields # "missing"
    THEN IF ~OrderParses(m)
         THEN [orders |-> store, response |-> EmptyResponse, panicked |-> TRUE]
         ELSE [orders |-> update_order(store, m.clOrdID, Order(status)),
               response |->
                   msgtype2fixmsg("Execution_Report",
                       prepare_execution_report(m.clOrdID, code, code), out),
               panicked |-> FALSE]
    ELSE [orders |-> store,
          response |-> msgtype2fixmsg("Order_Cancel_Reject", NoOverride, out),
          panicked |-> FALSE]

\* handle_order_cancel_replace_request and handle_order_cancel_request:
\* the update is keyed by ClOrdID.
handle_order_cancel(m, store, out, status, code) ==
    IF m.ordFields # "missing"
    THEN IF ~OrderParses(m)
         THEN [orders |-> store, response |-> EmptyResponse, panicked |-> TRUE]
         ELSE [orders |-> update_order(store, m.clOrdID, Order(status)),
               response |->
                   IF isInitiator THEN EmptyResponse
                   ELSE msgtype2fixmsg("Execution_Report",
                            prepare_execution_report(m.clOrdID, code, code), out),
               panicked |-> FALSE]
    ELSE [orders |-> store,
          response |->
              IF isInitiator THEN EmptyResponse
              ELSE msgtype2fixmsg("Order_Cancel_Reject", NoOverride, out),
          panicked |-> FALSE]

\* The handler of m gets as far as OrderStore::persist: add_order always
\* does, update_order when the id is in the map.
Flushes(m, store) ==
    /\ m.type \in OrderTypes /\ m.ordFields # "missing" /\ OrderParses(m)
    /\ m.type \in CancelTypes => m.clOrdID \in DOMAIN store

\* handle_business_message: the match on msgtype.
handle_business_message(m, store, out) ==
    CASE m.type = "NEW_ORDER_SINGLE" -> handle_new_order_single(m, store, out)
      [] m.type = "ORDER_CANCEL_REPLACE_REQUEST" ->
            handle_order_cancel(m, store, out, "Replaced", 5)
      [] m.type = "ORDER_CANCEL_REQUEST" ->
            handle_order_cancel(m, store, out, "Canceled", 4)
      [] m.type = "EXECUTION_REPORT" ->
            [orders |-> store, response |-> EmptyResponse, panicked |-> FALSE]
      [] OTHER ->
            [orders |-> store,
             response |-> msgtype2fixmsg("Business_Message_Reject", NoOverride, out),
             panicked |-> FALSE]

\* --------------------------------------------------------- admin handler
\* The reset is taken only when it moves the counter forward.
set_outgoing_OnlyForward(value) == IF value > outgoing THEN value ELSE outgoing

\* SequenceNumberStore::set_outgoing: the value the counter is left with.
set_outgoing(value) == value

\* The LOGON arm stores RECEIVED_LOGON only.
handle_admin_message_NoSentFlag(m, inc, out) ==
    LET keep == [sentLogon |-> sentLogon, receivedLogon |-> receivedLogon,
                 outgoing |-> out, response |-> EmptyResponse,
                 panicked |-> FALSE]
    IN
    IF sentLogon /\ m.type = "LOGON"
    THEN [keep EXCEPT !.receivedLogon = IF isInitiator THEN TRUE ELSE @]
    ELSE CASE m.type = "LOGON" ->
                [keep EXCEPT !.receivedLogon = TRUE,
                             !.response = msgtype2fixmsg("Logon", NoOverride, out)]
           [] m.type \in {"HEARTBEAT", "TEST_REQUEST"} ->
                [keep EXCEPT !.response = msgtype2fixmsg("Heartbeat", NoOverride, out)]
           [] m.type = "RESEND_REQUEST" ->
                [keep EXCEPT !.response =
                    msgtype2fixmsg("Sequence_Reset", [newSeqNo |-> inc], out)]
           [] m.type = "SEQUENCE_RESET" ->
                IF m.newSeqNo < 0
                THEN [keep EXCEPT !.panicked = TRUE]
                ELSE [keep EXCEPT !.outgoing = set_outgoing(m.newSeqNo)]
           [] OTHER -> keep

\* handle_admin_message: the flags and the outgoing counter it leaves, the
\* response it built, and whether it panicked.  inc is get_incoming() and
\* out is get_outgoing() at the time of the call.
handle_admin_message(m, inc, out) ==
    LET keep == [sentLogon |-> sentLogon, receivedLogon |-> receivedLogon,
                 outgoing |-> out, response |-> EmptyResponse,
                 panicked |-> FALSE]
    IN
    IF sentLogon /\ m.type = "LOGON"
    THEN [keep EXCEPT !.receivedLogon = IF isInitiator THEN TRUE ELSE @]
    ELSE CASE m.type = "LOGON" ->
                [keep EXCEPT !.receivedLogon = TRUE, !.sentLogon = TRUE,
                             !.response = msgtype2fixmsg("Logon", NoOverride, out)]
           [] m.type \in {"HEARTBEAT", "TEST_REQUEST"} ->
                [keep EXCEPT !.response = msgtype2fixmsg("Heartbeat", NoOverride, out)]
           [] m.type = "RESEND_REQUEST" ->
                [keep EXCEPT !.response =
                    msgtype2fixmsg("Sequence_Reset", [newSeqNo |-> inc], out)]
           [] m.type = "SEQUENCE_RESET" ->
                IF m.newSeqNo < 0
                THEN [keep EXCEPT !.panicked = TRUE]
                ELSE [keep EXCEPT !.outgoing = set_outgoing(m.newSeqNo)]
           [] OTHER -> keep

\* The request asks from the message after the expected one.
handle_resend_request_OffByOne(expected_incoming_seq_num, out) ==
    msgtype2fixmsg("Resend_Request",
                   [beginSeqNo |-> expected_incoming_seq_num + 1], out)

\* handle_resend_request: the ResendRequest asking from the expected number.
handle_resend_request(expected_incoming_seq_num, out) ==
    msgtype2fixmsg("Resend_Request",
                   [beginSeqNo |-> expected_incoming_seq_num], out)

\* handle_logout: the Logout whose Text is err_text.
handle_logout(expected_incoming_seq_num, incoming_seq_num, out) ==
    msgtype2fixmsg("Logout",
                   [textExpected |-> expected_incoming_seq_num,
                    textReceived |-> incoming_seq_num], out)

\* ---------------------------------------------------- sequence discipline
\* process_fix_message: what the reader does with one buffer.  The result
\* names the counters, flags and order store it leaves, the handler the
\* message was given to, the response to send and the send path.
Dropped ==
    [incoming |-> incoming, branch |-> "none", handler |-> "none",
     sentLogon |-> sentLogon, receivedLogon |-> receivedLogon,
     outgoing |-> outgoing, orders |-> orders, seqFile |-> seqFile,
     ordFile |-> ordFile,
     response |-> EmptyResponse, path |-> "none", panicked |-> FALSE]

\* The admin path advances incoming itself, whatever branch called it.
AdminDispatch_AlwaysInc(m, inc) ==
    LET a == handle_admin_message(m, incoming + 1, outgoing)
    IN  [Dropped EXCEPT !.incoming = incoming + 1, !.handler = "admin",
                        !.sentLogon = a.sentLogon,
                        !.receivedLogon = a.receivedLogon,
                        !.outgoing = a.outgoing, !.response = a.response,
                        !.seqFile = to_string(
                            SequenceNumber(incoming + 1, a.outgoing)),
                        !.path = "admin", !.panicked = a.panicked]

AdminDispatch(m, inc) ==
    LET a == handle_admin_message(m, inc, outgoing)
    IN  [Dropped EXCEPT !.incoming = inc, !.handler = "admin",
                        !.sentLogon = a.sentLogon,
                        !.receivedLogon = a.receivedLogon,
                        !.outgoing = a.outgoing, !.response = a.response,
                        !.seqFile =
                            IF inc # incoming
                               \/ (m.type = "SEQUENCE_RESET" /\ ~a.panicked)
                            THEN to_string(SequenceNumber(inc, a.outgoing))
                            ELSE seqFile,
                        !.path = "admin", !.panicked = a.panicked]

BusinessDispatch(m, inc) ==
    LET b == handle_business_message(m, orders, outgoing)
    IN  [Dropped EXCEPT !.incoming = inc, !.handler = "business",
                        !.orders = b.orders, !.response = b.response,
                        !.ordFile = IF Flushes(m, orders)
                                    THEN persist(b.orders, ordFile)
                                    ELSE ordFile,
                        !.seqFile = to_string(SequenceNumber(inc, outgoing)),
                        !.path = "business", !.panicked = b.panicked]

\* A message that is not validated is counted before it is dropped.
process_fix_message_CountsDropped(m) ==
    LET expected_incoming_seq_num == incoming
    IN
    IF ~Validated(m) THEN [Dropped EXCEPT !.incoming = incoming + 1]
    ELSE IF expected_incoming_seq_num = m.seq
         THEN LET r == IF is_admin_message(m.type)
                       THEN AdminDispatch(m, expected_incoming_seq_num + 1)
                       ELSE BusinessDispatch(m, expected_incoming_seq_num + 1)
              IN  [r EXCEPT !.branch = "equal"]
    ELSE IF expected_incoming_seq_num < m.seq
         THEN IF m.type = "SEQUENCE_RESET"
              THEN [AdminDispatch(m, expected_incoming_seq_num)
                        EXCEPT !.branch = "higher"]
              ELSE [Dropped EXCEPT
                      !.branch = "higher",
                      !.response = handle_resend_request(
                                       expected_incoming_seq_num, outgoing),
                      !.path = "resend"]
    ELSE [Dropped EXCEPT
            !.branch = "lower",
            !.response = handle_logout(expected_incoming_seq_num, m.seq, outgoing),
            !.path = "logout"]

\* process_fix_message: a buffer that is not validated is dropped; the
\* others go by MsgSeqNum against get_incoming().
process_fix_message(m) ==
    LET expected_incoming_seq_num == incoming
    IN
    IF ~Validated(m) THEN Dropped
    ELSE IF expected_incoming_seq_num = m.seq
         THEN LET r == IF is_admin_message(m.type)
                       THEN AdminDispatch(m, expected_incoming_seq_num + 1)
                       ELSE BusinessDispatch(m, expected_incoming_seq_num + 1)
              IN  [r EXCEPT !.branch = "equal"]
    ELSE IF expected_incoming_seq_num < m.seq
         THEN IF m.type = "SEQUENCE_RESET"
              THEN [AdminDispatch(m, expected_incoming_seq_num)
                        EXCEPT !.branch = "higher"]
              ELSE [Dropped EXCEPT
                      !.branch = "higher",
                      !.response = handle_resend_request(
                                       expected_incoming_seq_num, outgoing),
                      !.path = "resend"]
    ELSE [Dropped EXCEPT
            !.branch = "lower",
            !.response = handle_logout(expected_incoming_seq_num, m.seq, outgoing),
            !.path = "logout"]

\* ------------------------------------------------------- read boundaries
\* read_and_route_messages hands the bytes of one stream.read to
\* handle_incoming_message as one message.  The bytes of two complete
\* messages, m1 then m2, returned by one read: FixMessage::parse inserts
\* every field into one map, so validate sees the later value of a tag;
\* fixmsg2msgtype assigns msgtype at every MsgType field and keeps the
\* first value of every field in msg_map (or_insert).
one_read(m1, m2) ==
    [utf8 |-> m1.utf8 /\ m2.utf8, isfix |-> m1.isfix \/ m2.isfix,
     parse |-> m1.parse /\ m2.parse,
     hdr |-> m2.hdr, bodyLength |-> m2.bodyLength, mt35 |-> m2.mt35,
     req |-> m2.req,
     type |-> m2.type,
     seq |-> m1.seq, newSeqNo |-> m1.newSeqNo, clOrdID |-> m1.clOrdID,
     origClOrdID |-> m1.origClOrdID, ordFields |-> m1.ordFields]

\* The bytes of m up to a read boundary that falls before MsgSeqNum (34):
\* BeginString is there, msg_map.get("MsgSeqNum") is None.
head(m) == [m EXCEPT !.seq = NoVal]

\* The bytes of m after that boundary: no "8=FIX" in them.
tail(m) == [m EXCEPT !.isfix = FALSE]

\* The complete messages the peer puts on the stream.
Framed == { m \in PlainIn : m.type \in {"HEARTBEAT", "LOGON", "EXECUTION_REPORT"} }

\* What one stream.read can return of them: one message, two messages, the
\* first part of a message, the rest of a message.
Buffers ==
    Framed
    \cup UNION { { one_read(m1, m2) : m2 \in { m \in Framed : m.seq = m1.seq + 1 } } :
                  m1 \in Framed }
    \cup { head(m) : m \in Framed }
    \cup { tail(m) : m \in Framed }

\* ------------------------------------------------------ codec, in bytes
\* Text is a sequence of bytes.
SOH    == 1      \* the separator on the wire
Hash   == 35     \* '#', the placeholder for BodyLength
Equals == 61     \* '='
Pipe   == 124    \* '|', the separator inside the engine

\* u64::to_string, u32::to_string: the decimal digits.
RECURSIVE to_digits(_)
to_digits(n) ==
    IF n < 10 THEN <<48 + n>> ELSE to_digits(n \div 10) \o <<48 + (n % 10)>>

\* format!("{:03}", v).
fmt03(v) == <<48 + (v \div 100), 48 + ((v \div 10) % 10), 48 + (v % 10)>>

\* str::to_uppercase on ASCII text.
to_uppercase(v) ==
    [i \in 1..Len(v) |-> IF v[i] \in 97..122 THEN v[i] - 32 ELSE v[i]]

\* The texts of the dictionary and of the templates.
FIX_4_2   == <<70, 73, 88, 46, 52, 46, 50>>           \* "FIX.4.2"
HEARTBEAT == <<72, 69, 65, 82, 84, 66, 69, 65, 84>>   \* "HEARTBEAT"
EXECUTION_REPORT == <<69, 88, 69, 67>>                \* "EXEC"
ENUM_NEW  == <<78, 69, 87>>                           \* "NEW"
Zero      == <<48>>                                   \* "0"
Eight     == <<56>>                                   \* "8"

\* Utc::now().format("%Y%m%d-%H:%M:%S%.3f") at two instants.
Timestamps ==
    { <<50,48,50,52,48,49,48,49,45,48,48,58,48,48,58,48,48,46,48,48,48>>,
      <<50,48,50,52,48,49,48,49,45,49,50,58,51,48,58,53,57,46,57,57,57>> }

\* A FixTag of the dictionary: its number and its enum_values.
None == [some |-> FALSE, map |-> <<>>]
Some(map) == [some |-> TRUE, map |-> map]
FixTag(number, name, enum_values) ==
    [number |-> number, name |-> name, enum_values |-> enum_values]

\* fix_tagname_number_map: the fields by name, enum descriptions mapped
\* to their values.
fix_tagname_number_map ==
    [BeginString |-> FixTag(<<56>>, "BeginString", None),
     BodyLength  |-> FixTag(<<57>>, "BodyLength", None),
     MsgType     |-> FixTag(<<51, 53>>, "MsgType",
                        Some((HEARTBEAT :> Zero) @@ (EXECUTION_REPORT :> Eight))),
     MsgSeqNum   |-> FixTag(<<51, 52>>, "MsgSeqNum", None),
     SendingTime |-> FixTag(<<53, 50>>, "SendingTime", None),
     Symbol      |-> FixTag(<<53, 53>>, "Symbol", None),
     OrdStatus   |-> FixTag(<<51, 57>>, "OrdStatus", Some(ENUM_NEW :> Zero)),
     CheckSum    |-> FixTag(<<49, 48>>, "CheckSum", None)]

\* fix_tag_number_map: the fields by number, enum values mapped to their
\* descriptions.
fix_tag_number_map ==
    (<<56>> :> FixTag(<<56>>, "BeginString", None)) @@
    (<<57>> :> FixTag(<<57>>, "BodyLength", None)) @@
    (<<51, 53>> :> FixTag(<<51, 53>>, "MsgType",
                      Some((Zero :> HEARTBEAT) @@ (Eight :> EXECUTION_REPORT)))) @@
    (<<51, 52>> :> FixTag(<<51, 52>>, "MsgSeqNum", None)) @@
    (<<53, 50>> :> FixTag(<<53, 50>>, "SendingTime", None)) @@
    (<<53, 53>> :> FixTag(<<53, 53>>, "Symbol", None)) @@
    (<<51, 57>> :> FixTag(<<51, 57>>, "OrdStatus", Some(Zero :> ENUM_NEW))) @@
    (<<49, 48>> :> FixTag(<<49, 48>>, "CheckSum", None))

\* An IndexMap: entries <<key, value>> in insertion order.
Keys(map) == {map[i][1] : i \in 1..Len(map)}
Get(map, key) == (CHOOSE i \in 1..Len(map) : map[i][1] = key)
Value(map, key) == map[Get(map, key)][2]

\* IndexMap::insert: the value of a key that is there is replaced in its
\* place, a new key goes to the end.
insert(map, key, value) ==
    IF key \in Keys(map)
    THEN [map EXCEPT ![Get(map, key)] = <<key, value>>]
    ELSE Append(map, <<key, value>>)

\* for (key, value) in override_map: predefined_msg.insert(key, value).
RECURSIVE merge(_, _)
merge(map, override_map) ==
    IF override_map = <<>> THEN map
    ELSE merge(insert(map, Head(override_map)[1], Head(override_map)[2]),
               Tail(override_map))

\* The bytes of a key that is not in the dictionary.
KeyBytes(key) == IF key = "X" THEN <<88>> ELSE <<63>>

\* The text one entry contributes: number=value, with the enum value, the
\* placeholder, the timestamp or the sequence number in place of the value.
\* skip: the entry contributes nothing.
new_tag(key, value, msg_seq_num, now_text, unknown_kept) ==
    IF key \in DOMAIN fix_tagname_number_map
    THEN LET tags_info == fix_tagname_number_map[key]
             tag_value ==
                 IF tags_info.enum_values.some
                 THEN IF to_uppercase(value) \in DOMAIN tags_info.enum_values.map
                      THEN tags_info.enum_values.map[to_uppercase(value)]
                      ELSE value
                 ELSE IF key = "BodyLength" THEN <<Hash>> ELSE value
         IN  CASE key = "SendingTime" ->
                    [skip |-> FALSE, text |-> tags_info.number \o <<Equals>> \o now_text]
               [] key = "MsgSeqNum" ->
                    [skip |-> FALSE,
                     text |-> tags_info.number \o <<Equals>> \o to_digits(msg_seq_num)]
               [] key = "CheckSum" -> [skip |-> TRUE, text |-> <<>>]
               [] OTHER ->
                    [skip |-> FALSE, text |-> tags_info.number \o <<Equals>> \o tag_value]
    ELSE IF unknown_kept
         THEN [skip |-> FALSE, text |-> KeyBytes(key) \o <<Equals>> \o value]
         ELSE [skip |-> TRUE, text |-> <<>>]

\* The loop over the entries: the message so far and body_length.
RECURSIVE emit(_, _, _, _, _)
emit(map, msg_seq_num, now_text, unknown_kept, acc) ==
    IF map = <<>> THEN acc
    ELSE LET key == Head(map)[1]
             t   == new_tag(key, Head(map)[2], msg_seq_num, now_text, unknown_kept)
         IN  IF t.skip
             THEN emit(Tail(map), msg_seq_num, now_text, unknown_kept, acc)
             ELSE emit(Tail(map), msg_seq_num, now_text, unknown_kept,
                    [fix_msg |-> IF acc.fix_msg = <<>> THEN t.text
                                 ELSE acc.fix_msg \o <<Pipe>> \o t.text,
                     body_length |->
                         IF key # "BeginString" /\ key # "BodyLength"
                         THEN acc.body_length + Len(t.text) + 1
                         ELSE acc.body_length])

\* str::replace: every byte from is replaced by the text to.
RECURSIVE replace(_, _, _)
replace(text, from, to) ==
    IF text = <<>> THEN <<>>
    ELSE (IF Head(text) = from THEN to ELSE <<Head(text)>>)
         \o replace(Tail(text), from, to)

\* checksum.wrapping_add(byte) over the bytes; a u32 does not wrap on a
\* message shorter than sixteen million bytes.
RECURSIVE sum_bytes(_)
sum_bytes(text) ==
    IF text = <<>> THEN 0 ELSE Head(text) + sum_bytes(Tail(text))

\* "|10=" checksum "|".
checksum_field(value) == <<Pipe, 49, 48, Equals>> \o fmt03(value) \o <<Pipe>>

\* The templates of predefined_msg.json.
predefined_msg_bytes ==
    [Heartbeat |->
        << <<"BeginString", FIX_4_2>>, <<"BodyLength", Zero>>,
           <<"MsgType", HEARTBEAT>>, <<"MsgSeqNum", Zero>>,
           <<"SendingTime", <<>> >>, <<"CheckSum", Zero>> >>,
     Execution_Report |->
        << <<"BeginString", FIX_4_2>>, <<"BodyLength", Zero>>,
           <<"MsgType", EXECUTION_REPORT>>, <<"MsgSeqNum", Zero>>,
           <<"SendingTime", <<>> >>, <<"Symbol", <<65>> >>,
           <<"OrdStatus", ENUM_NEW>>, <<"CheckSum", Zero>> >>]

\* The separator before the CheckSum field is left out of the sum.
msgtype2fixmsg_bytes_NoSeparator(msgtype, override_map, msg_seq_num, now_text) ==
    LET built ==
            IF msgtype \in DOMAIN predefined_msg_bytes
            THEN emit(merge(predefined_msg_bytes[msgtype], override_map),
                      msg_seq_num, now_text, FALSE,
                      [fix_msg |-> <<>>, body_length |-> 0])
            ELSE [fix_msg |-> <<>>, body_length |-> 0]
        fix_msg == replace(built.fix_msg, Hash, to_digits(built.body_length))
        checksum == sum_bytes(replace(fix_msg, Pipe, <<SOH>>))
    IN  fix_msg \o checksum_field(checksum % 256)

\* msgtype2fixmsg in bytes: the message is built with (checksum + 1) % 256.
msgtype2fixmsg_bytes(msgtype, override_map, msg_seq_num, now_text) ==
    LET built ==
            IF msgtype \in DOMAIN predefined_msg_bytes
            THEN emit(merge(predefined_msg_bytes[msgtype], override_map),
                      msg_seq_num, now_text, FALSE,
                      [fix_msg |-> <<>>, body_length |-> 0])
            ELSE [fix_msg |-> <<>>, body_length |-> 0]
        fix_msg == replace(built.fix_msg, Hash, to_digits(built.body_length))
        checksum == sum_bytes(replace(fix_msg, Pipe, <<SOH>>))
    IN  fix_msg \o checksum_field((checksum + 1) % 256)

\* An encoder panicked: no message.
Panicked == <<0>>

\* fixmap2fixmsg in bytes: (checksum % 256) as u8 + 1 overflows at 255,
\* which panics when the build checks overflow and wraps otherwise.
fixmap2fixmsg_bytes(msg_map, msg_seq_num, now_text, overflow_checks) ==
    LET built == emit(msg_map, msg_seq_num, now_text, TRUE,
                      [fix_msg |-> <<>>, body_length |-> 0])
        fix_msg == replace(built.fix_msg, Hash, to_digits(built.body_length))
        checksum == sum_bytes(replace(fix_msg, Pipe, <<SOH>>))
    IN  IF checksum % 256 = 255 /\ overflow_checks
        THEN Panicked
        ELSE fix_msg \o checksum_field(((checksum % 256) + 1) % 256)

\* str::split: the pieces between the separators.
RECURSIVE split(_, _, _)
split(text, sep, piece) ==
    IF text = <<>> THEN <<piece>>
    ELSE IF Head(text) = sep
         THEN <<piece>> \o split(Tail(text), sep, <<>>)
         ELSE split(Tail(text), sep, Append(piece, Head(text)))

\* str::parse::<u32> succeeds: decimal digits.
ParsesU32(text) == text # <<>> /\ \A i \in 1..Len(text) : text[i] \in 48..57

\* The names fixmsg2msgtype gives to what it cannot look up.
UnknownTagType == <<85, 110, 107>>   \* "UnknownTag"
InvalidTagType == <<73, 110, 118>>   \* "InvalidTagNumber"

\* msg_map.entry(key).or_insert(value): the first value of a key stays.
or_insert(map, key, value) ==
    IF key \in Keys(map) THEN map ELSE Append(map, <<key, value>>)

\* fixmsg2msgtype, the loop over the fields: msgtype and msg_map so far.
RECURSIVE decode_fields(_, _)
decode_fields(fields, acc) ==
    IF fields = <<>> THEN acc
    ELSE LET parts == split(Head(fields), Equals, <<>>)
             next ==
                 IF Len(parts) # 2 THEN acc
                 ELSE IF ~ParsesU32(parts[1])
                 THEN [msgtype |-> InvalidTagType,
                       msg_map |-> insert(acc.msg_map, "Invalid tag number", parts[2])]
                 ELSE IF parts[1] \notin DOMAIN fix_tag_number_map
                 THEN [msgtype |-> UnknownTagType,
                       msg_map |-> insert(acc.msg_map, "Unknown tag", parts[2])]
                 ELSE LET tag_definition == fix_tag_number_map[parts[1]]
                          described ==
                              IF tag_definition.enum_values.some
                              THEN IF parts[2] \in DOMAIN tag_definition.enum_values.map
                                   THEN tag_definition.enum_values.map[parts[2]]
                                   ELSE parts[2]
                              ELSE parts[2]
                      IN  [msgtype |->
                               IF tag_definition.enum_values.some
                                  /\ tag_definition.name = "MsgType"
                               THEN described ELSE acc.msgtype,
                           msg_map |->
                               or_insert(acc.msg_map, tag_definition.name, described)]
         IN  decode_fields(Tail(fields), next)

\* fixmsg2msgtype on the bytes of a message.
fixmsg2msgtype_bytes(fixmsg) ==
    decode_fields(split(replace(fixmsg, SOH, <<Pipe>>), Pipe, <<>>),
                  [msgtype |-> <<>>, msg_map |-> <<>>])

\* ------------------------------------------------- two engines, connected
\* Two instances of the engine, one configured as initiator and one as
\* acceptor, on one connection.
Engines == {"initiator", "acceptor"}
Other(e) == IF e = "initiator" THEN "acceptor" ELSE "initiator"

\* An instance before its main has run.  asked is the value of incoming
\* when the instance first sent a ResendRequest; answered says that the
\* other instance has answered a ResendRequest of this one.
NoEngine ==
    [at |-> "off", incoming |-> 1, outgoing |-> 1,
     sentLogon |-> FALSE, receivedLogon |-> FALSE,
     asked |-> NoVal, answered |-> FALSE]

\* The type name fixmsg2msgtype gives a message built from a template.
msgtype_of(name) ==
    CASE name = "Logon" -> "LOGON"
      [] name = "Heartbeat" -> "HEARTBEAT"
      [] name = "Resend_Request" -> "RESEND_REQUEST"
      [] name = "Sequence_Reset" -> "SEQUENCE_RESET"
      [] name = "Logout" -> "LOGOUT"

\* The buffer the reader gets when the other instance has sent o: a
\* message of the engine's own templates, which passes validation.
received(o) ==
    [BaseIn EXCEPT !.type = msgtype_of(o.type), !.seq = o.seq,
                   !.newSeqNo = o.newSeqNo]

\* handle_admin_message in the instance whose counters and flags are s,
\* get_incoming() being s.incoming: the counters and flags it leaves and
\* the response it sends.
handle_admin_message_of(m, s, initiator) ==
    LET keep == [s |-> s, response |-> EmptyResponse]
    IN
    IF s.sentLogon /\ m.type = "LOGON"
    THEN [keep EXCEPT !.s.receivedLogon = IF initiator THEN TRUE ELSE @]
    ELSE CASE m.type = "LOGON" ->
                [keep EXCEPT !.s.receivedLogon = TRUE, !.s.sentLogon = TRUE,
                             !.response =
                                 msgtype2fixmsg("Logon", NoOverride, s.outgoing)]
           [] m.type \in {"HEARTBEAT", "TEST_REQUEST"} ->
                [keep EXCEPT !.response =
                                 msgtype2fixmsg("Heartbeat", NoOverride, s.outgoing)]
           [] m.type = "RESEND_REQUEST" ->
                [keep EXCEPT !.response =
                                 msgtype2fixmsg("Sequence_Reset",
                                     [newSeqNo |-> s.incoming], s.outgoing)]
           [] m.type = "SEQUENCE_RESET" ->
                [keep EXCEPT !.s.outgoing = set_outgoing(m.newSeqNo)]
           [] OTHER -> keep

\* process_fix_message in the instance whose counters and flags are s, for
\* an admin message that passes validation.
process_fix_message_of(m, s, initiator) ==
    LET expected_incoming_seq_num == s.incoming
    IN
    IF expected_incoming_seq_num = m.seq
    THEN handle_admin_message_of(
             m, [s EXCEPT !.incoming = expected_incoming_seq_num + 1], initiator)
    ELSE IF expected_incoming_seq_num < m.seq
         THEN IF m.type = "SEQUENCE_RESET"
              THEN handle_admin_message_of(m, s, initiator)
              ELSE [s |-> s,
                    response |-> handle_resend_request(
                                     expected_incoming_seq_num, s.outgoing)]
    ELSE [s |-> s,
          response |-> handle_logout(expected_incoming_seq_num, m.seq, s.outgoing)]

\* No message has been encoded or decoded.
NoEncoded == [by |-> "none", bytes |-> <<>>, name |-> "", map |-> <<>>, n |-> 0]
NoDecoded == [msgtype |-> <<>>, msg_map |-> <<>>, done |-> FALSE]

\* ------------------------------------------------- sequence store calls
Increments == {"increment_incoming", "increment_outgoing"}
Sets == {"set_incoming", "set_outgoing"}
Mutations == Increments \cup Sets

\* The counter a mutation works on.
CounterOf(op) ==
    IF op \in {"increment_incoming", "set_incoming"} THEN "incoming" ELSE "outgoing"

\* A thread that is not inside the store.
NoCall == [op |-> "none", at |-> "idle", arg |-> NoVal, val |-> NoVal,
           old |-> NoVal]

\* ------------------------------------------------------------------- Init
\* The state when main has loaded the configuration and built the stores:
\* SequenceNumberStore::new has loaded the counters (1 and 1 from a missing
\* file), OrderStore::new starts from an empty map, the flags are false.
Init ==
    /\ isInitiator \in BOOLEAN
    /\ enableCmdLine \in BOOLEAN
    /\ incoming \in 1..MaxInitSeq
    /\ outgoing \in 1..MaxInitSeq
    /\ initSeq = SequenceNumber(incoming, outgoing)
    /\ seqFile \in {f \in {NoFile, EmptyFile, CorruptFile, to_string(initSeq)} :
                        new(f) = initSeq}
    /\ sentLogon = FALSE
    /\ receivedLogon = FALSE
    /\ isLoggedOn = FALSE
    /\ lastSentTime = NoVal
    /\ now = 0
    /\ sleepLeft = TicksPerSecond
    /\ sentAt = NoVal
    /\ seqLock = "free"
    /\ call = [t \in Threads |-> NoCall]
    /\ returned = [op \in Mutations |-> 0]
    /\ orders = [i \in {} |-> Order("New")]
    /\ ordFile = ZeroFile
    /\ ocall = [t \in Threads |-> NoOrderCall]
    /\ oreturned = [r \in OrderResults |-> 0]
    /\ sending = [t \in Threads |-> NoSend]
    /\ streamLock = [x \in StreamMutexes |-> "free"]
    /\ wire = <<>>
    /\ checked = NoCheck
    /\ valid = "none"
    /\ encoded = NoEncoded
    /\ decoded = NoDecoded
    /\ eng = [e \in Engines |-> NoEngine]
    /\ chan = [e \in Engines |-> <<>>]
    /\ pc = [t \in Threads |-> IF t = Main THEN "connect" ELSE "unspawned"]
    /\ resp = [t \in Threads |-> EmptyResponse]
    /\ wrote = [t \in Threads |-> FALSE]
    /\ path = "none"
    /\ inType = ""
    /\ branch = "none"
    /\ handler = "none"
    /\ exited = "no"
    /\ nIn = 0
    /\ nCmd = 0
    /\ accepted = 0
    /\ tickerSends = 0
    /\ restarts = 0

config == <<isInitiator, enableCmdLine, initSeq, restarts>>
seqStore == <<incoming, outgoing, seqFile>>
socket == <<sending, streamLock, wire>>
validator == <<checked, valid>>
codec == <<encoded, decoded>>
pair == <<eng, chan>>
storeCalls == <<seqLock, call, returned, ocall, oreturned, socket, validator,
               codec, pair>>
orderStore == <<orders, ordFile>>
flags == <<sentLogon, receivedLogon, isLoggedOn>>
lastSent == <<lastSentTime, sentAt>>
clock == <<now, sleepLeft, tickerSends>>
readerLocals == <<path, inType, branch, handler, nIn, accepted>>

\* send_message, or write_all and flush: resp[t] is on the wire.
Written(t) == wrote' = [wrote EXCEPT ![t] = TRUE]

\* The write failed: nothing is on the wire.
NotWritten(t) == wrote' = [wrote EXCEPT ![t] = FALSE]

\* handle_stream: the reader and the ticker are spawned; the thread that
\* called it reads the console when enabled and then joins the workers.
Spawned(p) ==
    [p EXCEPT ![Reader] = "read", ![Ticker] = "sleep",
              ![Main] = IF enableCmdLine THEN "console" ELSE "join"]

\* The process is alive.
Running == exited = "no"

\* What ends the process: main returning an error, process::exit in the
\* reader after the Logout or at end of stream, process::exit in the ticker.
Exits == {"main", "logout", "eof", "ticker"}

\* process::exit, or main returning: the threads, their locals and the
\* process-wide flags are gone; the sequence file and the order file stay.
ProcessExit(by) ==
    /\ exited' = by
    /\ pc' = [t \in Threads |-> "off"]
    /\ resp' = [t \in Threads |-> EmptyResponse]
    /\ wrote' = [t \in Threads |-> FALSE]
    /\ sentLogon' = FALSE /\ receivedLogon' = FALSE /\ isLoggedOn' = FALSE
    /\ lastSentTime' = NoVal /\ sentAt' = NoVal /\ sleepLeft' = TicksPerSecond
    /\ path' = "none" /\ inType' = "" /\ branch' = "none" /\ handler' = "none"
    /\ nIn' = 0 /\ nCmd' = 0 /\ tickerSends' = 0
    /\ UNCHANGED <<config, storeCalls, incoming, orderStore, now, accepted>>

\* ------------------------------------------------------------ main thread
\* main, initiator: establish_connection, then build_logon_message.
MainConnect ==
    /\ Running /\ pc[Main] = "connect" /\ isInitiator
    /\ resp' = [resp EXCEPT ![Main] = msgtype2fixmsg("Logon", NoOverride, outgoing)]
    /\ pc' = [pc EXCEPT ![Main] = "write"]
    /\ UNCHANGED <<config, storeCalls, seqStore, flags, lastSent, clock, orderStore, wrote,
                   readerLocals, exited, nCmd>>

\* main, acceptor: start_listener accepts the peer and calls handle_stream.
MainAccept ==
    /\ Running /\ pc[Main] = "connect" /\ ~isInitiator
    /\ pc' = Spawned(pc)
    /\ UNCHANGED <<config, storeCalls, seqStore, flags, lastSent, clock, orderStore, resp,
                   wrote, readerLocals, exited, nCmd>>

\* send_logon_message: write_all and flush; an error makes main return.
LogonWrite ==
    /\ Running /\ pc[Main] = "write"
    /\ \/ /\ Written(Main)
          /\ pc' = [pc EXCEPT ![Main] = "inc"]
          /\ UNCHANGED <<config, storeCalls, seqStore, flags, lastSent, clock, orderStore,
                         resp, readerLocals, exited, nCmd>>
       \/ /\ ProcessExit("main")
          /\ UNCHANGED <<outgoing, seqFile>>

\* SENT_LOGON is not stored.
LogonInc_NoFlag ==
    /\ Running /\ pc[Main] = "inc"
    /\ outgoing' = outgoing + 1
    /\ seqFile' = to_string(SequenceNumber(incoming, outgoing + 1))
    /\ pc' = Spawned(pc)
    /\ resp' = [resp EXCEPT ![Main] = EmptyResponse]
    /\ wrote' = [wrote EXCEPT ![Main] = FALSE]
    /\ UNCHANGED <<config, storeCalls, incoming, flags, lastSent,
                   clock, orderStore, readerLocals, exited, nCmd>>

\* send_logon_message: increment_outgoing, SENT_LOGON, then handle_stream.
LogonInc ==
    /\ Running /\ pc[Main] = "inc"
    /\ outgoing' = outgoing + 1
    /\ seqFile' = to_string(SequenceNumber(incoming, outgoing + 1))
    /\ sentLogon' = TRUE
    /\ pc' = Spawned(pc)
    /\ resp' = [resp EXCEPT ![Main] = EmptyResponse]
    /\ wrote' = [wrote EXCEPT ![Main] = FALSE]
    /\ UNCHANGED <<config, storeCalls, incoming, receivedLogon, isLoggedOn, lastSent,
                   clock, orderStore, readerLocals, exited, nCmd>>

\* The lines typed at the console that are sent: validated messages.
ConsoleMsgs == { [BaseIn EXCEPT !.type = "HEARTBEAT"],
                 [BaseIn EXCEPT !.hdr = FALSE] }

\* handle_input_message: a validated line is encoded with get_outgoing().
ConsoleInput(m) ==
    /\ Running /\ pc[Main] = "console" /\ nCmd < MaxCmd
    /\ nCmd' = nCmd + 1
    /\ IF m.isfix /\ m.parse /\ validate(m)
       THEN /\ resp' = [resp EXCEPT ![Main] = fixmap2fixmsg(m, outgoing)]
            /\ pc' = [pc EXCEPT ![Main] = "cwrite"]
       ELSE UNCHANGED <<resp, pc>>
    /\ UNCHANGED <<config, storeCalls, seqStore, flags, lastSent, clock, orderStore, wrote,
                   readerLocals, exited>>

\* handle_input_message: send_message; an error is returned to handle_stream,
\* and from there to main (initiator) or to the connection thread (acceptor).
ConsoleWrite ==
    /\ Running /\ pc[Main] = "cwrite"
    /\ \/ /\ Written(Main)
          /\ pc' = [pc EXCEPT ![Main] = "cinc"]
          /\ UNCHANGED <<config, storeCalls, seqStore, flags, lastSent, clock, orderStore,
                         resp, readerLocals, exited, nCmd>>
       \/ /\ isInitiator
          /\ ProcessExit("main")
          /\ UNCHANGED <<outgoing, seqFile>>
       \/ /\ ~isInitiator
          /\ NotWritten(Main)
          /\ pc' = [pc EXCEPT ![Main] = "done"]
          /\ resp' = [resp EXCEPT ![Main] = EmptyResponse]
          /\ UNCHANGED <<config, storeCalls, seqStore, flags, lastSent, clock, orderStore,
                         readerLocals, exited, nCmd>>

\* handle_input_message: increment_outgoing.
ConsoleInc ==
    /\ Running /\ pc[Main] = "cinc"
    /\ outgoing' = outgoing + 1
    /\ seqFile' = to_string(SequenceNumber(incoming, outgoing + 1))
    /\ pc' = [pc EXCEPT ![Main] = "cstamp"]
    /\ UNCHANGED <<config, storeCalls, incoming, flags, lastSent, clock, orderStore, resp,
                   wrote, readerLocals, exited, nCmd>>

\* handle_input_message: LAST_SENT_TIME.store(Utc::now()).
ConsoleStamp ==
    /\ Running /\ pc[Main] = "cstamp"
    /\ lastSentTime' = timestamp(now)
    /\ sentAt' = now
    /\ pc' = [pc EXCEPT ![Main] = "console"]
    /\ resp' = [resp EXCEPT ![Main] = EmptyResponse]
    /\ wrote' = [wrote EXCEPT ![Main] = FALSE]
    /\ UNCHANGED <<config, storeCalls, seqStore, flags, clock, orderStore,
                   readerLocals, exited, nCmd>>

\* ---------------------------------------------------------- reader thread
\* read_and_route_messages: one read, handle_incoming_message and
\* process_fix_message up to the point where the response is built.
ReaderRead(m) ==
    /\ Running /\ pc[Reader] = "read" /\ nIn < MaxIn
    /\ LET r == process_fix_message(m)
       IN  /\ incoming' = r.incoming
           /\ accepted' = IF Validated(m) /\ m.seq = incoming
                          THEN accepted + 1 ELSE accepted
           /\ branch' = r.branch
           /\ handler' = r.handler
           /\ sentLogon' = r.sentLogon
           /\ receivedLogon' = r.receivedLogon
           /\ outgoing' = r.outgoing
           /\ seqFile' = r.seqFile
           /\ orders' = r.orders
           /\ ordFile' = r.ordFile
           /\ path' = r.path
           /\ resp' = [resp EXCEPT ![Reader] = r.response]
           /\ pc' = [pc EXCEPT ![Reader] =
                        IF r.panicked THEN "dead"
                        ELSE IF r.response # EmptyResponse THEN "write"
                        ELSE "next"]
    /\ inType' = IF Validated(m) THEN m.type ELSE ""
    /\ nIn' = nIn + 1
    /\ UNCHANGED <<config, storeCalls, isLoggedOn, lastSent, clock, wrote,
                   exited, nCmd>>

\* The buffer goes to the LOGON arm of handle_admin_message: an accepted
\* Logon read while SENT_LOGON is false.
LogonArm(m) == Validated(m) /\ m.seq = incoming /\ m.type = "LOGON" /\ ~sentLogon

\* process_fix_message up to the first store of the LOGON arm:
\* increment_incoming, then RECEIVED_LOGON.store(true).
ReaderLogonReceived(m) ==
    /\ Running /\ pc[Reader] = "read" /\ nIn < MaxIn
    /\ LogonArm(m)
    /\ LET r == process_fix_message(m)
       IN  /\ incoming' = r.incoming
           /\ seqFile' = r.seqFile
           /\ branch' = r.branch
           /\ handler' = r.handler
           /\ path' = r.path
    /\ accepted' = accepted + 1
    /\ receivedLogon' = TRUE
    /\ pc' = [pc EXCEPT ![Reader] = "store_sent"]
    /\ inType' = m.type
    /\ nIn' = nIn + 1
    /\ UNCHANGED <<config, storeCalls, outgoing, sentLogon, isLoggedOn, lastSent,
                   clock, orderStore, resp, wrote, exited, nCmd>>

\* The second store is left out.
ReaderLogonSent_NoStore ==
    /\ Running /\ pc[Reader] = "store_sent"
    /\ UNCHANGED sentLogon
    /\ resp' = [resp EXCEPT ![Reader] = msgtype2fixmsg("Logon", NoOverride, outgoing)]
    /\ pc' = [pc EXCEPT ![Reader] = "write"]
    /\ UNCHANGED <<config, storeCalls, seqStore, receivedLogon, isLoggedOn, lastSent,
                   clock, orderStore, wrote, readerLocals, exited, nCmd>>

\* The LOGON arm after its first store: SENT_LOGON.store(true), then the
\* Logon is built with get_outgoing().
ReaderLogonSent ==
    /\ Running /\ pc[Reader] = "store_sent"
    /\ sentLogon' = TRUE
    /\ resp' = [resp EXCEPT ![Reader] = msgtype2fixmsg("Logon", NoOverride, outgoing)]
    /\ pc' = [pc EXCEPT ![Reader] = "write"]
    /\ UNCHANGED <<config, storeCalls, seqStore, receivedLogon, isLoggedOn, lastSent,
                   clock, orderStore, wrote, readerLocals, exited, nCmd>>

\* send_message on the reader's paths: an error is logged and ignored.
ReaderWrite ==
    /\ Running /\ pc[Reader] = "write"
    /\ \/ Written(Reader)
       \/ NotWritten(Reader)
    /\ pc' = [pc EXCEPT ![Reader] = "inc"]
    /\ UNCHANGED <<config, storeCalls, seqStore, flags, lastSent, clock, orderStore, resp,
                   readerLocals, exited, nCmd>>

\* The process::exit after handle_logout is missing.
AfterInc_NoExit(p) == IF p = "admin" THEN "stamp" ELSE "next"

\* Where the reader goes after increment_outgoing on each send path: the
\* admin path stores LAST_SENT_TIME, the Logout path ends the process.
AfterInc(p) ==
    CASE p = "admin" -> "stamp"
      [] p = "logout" -> "exit"
      [] OTHER -> "next"

\* increment_outgoing after the reader's send_message; after handle_logout
\* process_fix_message calls process::exit(1).
ReaderInc ==
    /\ Running /\ pc[Reader] = "inc"
    /\ outgoing' = outgoing + 1
    /\ seqFile' = to_string(SequenceNumber(incoming, outgoing + 1))
    /\ IF AfterInc(path) = "exit"
       THEN ProcessExit("logout")
       ELSE /\ pc' = [pc EXCEPT ![Reader] = AfterInc(path)]
            /\ UNCHANGED <<config, storeCalls, incoming, flags, lastSent, clock, orderStore,
                           resp, wrote, readerLocals, exited, nCmd>>

\* handle_admin_message: LAST_SENT_TIME.store(Utc::now()).
ReaderStamp ==
    /\ Running /\ pc[Reader] = "stamp"
    /\ lastSentTime' = timestamp(now)
    /\ sentAt' = now
    /\ pc' = [pc EXCEPT ![Reader] = "next"]
    /\ UNCHANGED <<config, storeCalls, seqStore, flags, clock, orderStore, resp, wrote,
                   readerLocals, exited, nCmd>>

\* read_and_route_messages: buf is cleared and the loop reads again.
ReaderNext ==
    /\ Running /\ pc[Reader] = "next"
    /\ inType' = ""
    /\ branch' = "none"
    /\ handler' = "none"
    /\ path' = "none"
    /\ resp' = [resp EXCEPT ![Reader] = EmptyResponse]
    /\ wrote' = [wrote EXCEPT ![Reader] = FALSE]
    /\ pc' = [pc EXCEPT ![Reader] = "read"]
    /\ UNCHANGED <<config, storeCalls, seqStore, flags, lastSent, clock, orderStore, exited, nIn, accepted, nCmd>>

\* read_and_route_messages: read returns Ok(0), the peer is gone.
ReaderEof ==
    /\ Running /\ pc[Reader] = "read"
    /\ ProcessExit("eof")
    /\ UNCHANGED <<outgoing, seqFile>>

\* read_and_route_messages: read returns an error, the loop breaks.
ReaderErr ==
    /\ Running /\ pc[Reader] = "read"
    /\ pc' = [pc EXCEPT ![Reader] = "done"]
    /\ UNCHANGED <<config, storeCalls, seqStore, flags, lastSent, clock, orderStore,
                   resp, wrote, readerLocals, exited, nCmd>>

\* ---------------------------------------------------------- ticker thread
\* LAST_SENT_TIME is created with Utc::now() when it is first touched.
LastSent == IF lastSentTime = NoVal THEN timestamp(now) ELSE lastSentTime

\* check_interval: now.signed_duration_since(last_sent).num_seconds().
elapsed == (now - LastSent * TicksPerSecond) \div TicksPerSecond

\* check_interval: elapsed >= heart_bt_int.
IntervalElapsed == elapsed >= heart_bt_int

\* run_periodic_task: thread::sleep(Duration::from_secs(1)) has returned.
woken == pc[Ticker] = "sleep" /\ sleepLeft = 0

\* perform_task: the message type the ticker sends.
TickerMsgType == IF ~receivedLogon THEN "Logon" ELSE "Heartbeat"

\* run_periodic_task after its sleep: check_interval, and perform_task up
\* to the point where the message is built.
TickerCheck ==
    /\ Running /\ woken
    /\ sleepLeft' = TicksPerSecond
    /\ lastSentTime' = LastSent
    /\ UNCHANGED sentAt
    /\ IF IntervalElapsed
       THEN /\ resp' = [resp EXCEPT ![Ticker] =
                           msgtype2fixmsg(TickerMsgType, NoOverride, outgoing)]
            /\ pc' = [pc EXCEPT ![Ticker] = "write"]
       ELSE UNCHANGED <<resp, pc>>
    /\ UNCHANGED <<config, storeCalls, seqStore, flags, now, tickerSends, orderStore, wrote,
                   readerLocals, exited, nCmd>>

\* perform_task: send_message; an error ends the process (process::exit).
TickerWrite ==
    /\ Running /\ pc[Ticker] = "write"
    /\ \/ /\ Written(Ticker)
          /\ tickerSends' = tickerSends + 1
          /\ pc' = [pc EXCEPT ![Ticker] = "inc"]
          /\ UNCHANGED <<config, storeCalls, seqStore, flags, lastSent, now, sleepLeft,
                         orderStore, resp, readerLocals, exited, nCmd>>
       \/ /\ ProcessExit("ticker")
          /\ UNCHANGED <<outgoing, seqFile>>

\* perform_task: increment_outgoing.
TickerInc ==
    /\ Running /\ pc[Ticker] = "inc"
    /\ outgoing' = outgoing + 1
    /\ seqFile' = to_string(SequenceNumber(incoming, outgoing + 1))
    /\ pc' = [pc EXCEPT ![Ticker] = "stamp"]
    /\ UNCHANGED <<config, storeCalls, incoming, flags, lastSent, clock, orderStore, resp,
                   wrote, readerLocals, exited, nCmd>>

\* perform_task: LAST_SENT_TIME.store(Utc::now()); the ticker sleeps again.
TickerStamp ==
    /\ Running /\ pc[Ticker] = "stamp"
    /\ lastSentTime' = timestamp(now)
    /\ sentAt' = now
    /\ pc' = [pc EXCEPT ![Ticker] = "sleep"]
    /\ resp' = [resp EXCEPT ![Ticker] = EmptyResponse]
    /\ wrote' = [wrote EXCEPT ![Ticker] = FALSE]
    /\ UNCHANGED <<config, storeCalls, seqStore, flags, clock, orderStore, readerLocals, exited, nCmd>>

\* One second passes; a sleeping ticker wakes.
AdvanceClock ==
    /\ Running /\ now + TicksPerSecond <= MaxTime * TicksPerSecond
    /\ now' = now + TicksPerSecond
    /\ sleepLeft' = IF pc[Ticker] = "sleep" THEN 0 ELSE sleepLeft
    /\ UNCHANGED <<config, storeCalls, seqStore, flags, lastSent, tickerSends, orderStore,
                   pc, resp, wrote, readerLocals, exited, nCmd>>

\* One tick passes; the ticker's sleep returns when a second of ticks has
\* passed since it began.
AdvanceTick ==
    /\ Running /\ now < MaxTicks
    /\ now' = now + 1
    /\ sleepLeft' = IF pc[Ticker] = "sleep" /\ sleepLeft > 0
                    THEN sleepLeft - 1 ELSE sleepLeft
    /\ UNCHANGED <<config, storeCalls, seqStore, flags, lastSent, tickerSends, orderStore,
                   pc, resp, wrote, readerLocals, exited, nCmd>>

\* ------------------------------------------- the sequence store, by step
\* What the session's threads are, untouched by a step inside the store.
threadVars == <<config, flags, lastSent, clock, pc, resp, wrote,
                readerLocals, exited, nCmd>>
sessionThreads == <<threadVars, codec, pair>>
session == <<sessionThreads, orderStore, ocall, oreturned, socket, validator>>

\* Calls on the store that were made: returned or still inside.
CallsMade ==
    returned["increment_incoming"] + returned["increment_outgoing"]
    + returned["set_incoming"] + returned["set_outgoing"]
    + Cardinality({t \in Threads : call[t].at # "idle"})

\* The in-memory pair behind the Mutex.
sequence_numbers == SequenceNumber(incoming, outgoing)

\* A thread calls one of the four mutations.
StoreCall(t, op, new_seq) ==
    /\ call[t].at = "idle" /\ CallsMade < MaxCalls
    /\ call' = [call EXCEPT ![t] =
                    [op |-> op, at |-> "lock", val |-> NoVal, old |-> NoVal,
                     arg |-> IF op \in Sets THEN new_seq ELSE NoVal]]
    /\ UNCHANGED <<session, seqStore, seqLock, returned>>

\* The Mutex is taken whether or not another thread holds it.
MutexLock_NoExclusion(t) ==
    /\ call[t].at = "lock"
    /\ seqLock' = t
    /\ call' = [call EXCEPT ![t].at =
                    IF call[t].op \in Increments THEN "load" ELSE "store",
                              ![t].val = call[t].arg]
    /\ UNCHANGED <<session, seqStore, returned>>

\* self.sequence_numbers.lock(): the caller waits until the Mutex is free.
MutexLock(t) ==
    /\ call[t].at = "lock" /\ seqLock = "free"
    /\ seqLock' = t
    /\ call' = [call EXCEPT ![t].at =
                    IF call[t].op \in Increments THEN "load" ELSE "store",
                              ![t].val = call[t].arg]
    /\ UNCHANGED <<session, seqStore, returned>>

\* seq.incoming += 1, seq.outgoing += 1: the counter is read and one added.
Load(t) ==
    /\ call[t].at = "load"
    /\ call' = [call EXCEPT ![t].at = "store",
                            ![t].val = sequence_numbers[CounterOf(call[t].op)] + 1]
    /\ UNCHANGED <<session, seqStore, seqLock, returned>>

\* The counter is stored and the Mutex is released before persist runs.
Store_Unlocks(t) ==
    /\ call[t].at = "store"
    /\ incoming' = IF CounterOf(call[t].op) = "incoming"
                   THEN call[t].val ELSE incoming
    /\ outgoing' = IF CounterOf(call[t].op) = "outgoing"
                   THEN call[t].val ELSE outgoing
    /\ seqLock' = "free"
    /\ call' = [call EXCEPT ![t].at = "open",
                            ![t].old = sequence_numbers[CounterOf(call[t].op)]]
    /\ UNCHANGED <<session, seqFile, returned>>

\* The new value of the counter is stored in the pair; old is the value
\* it replaces.
Store(t) ==
    /\ call[t].at = "store"
    /\ incoming' = IF CounterOf(call[t].op) = "incoming"
                   THEN call[t].val ELSE incoming
    /\ outgoing' = IF CounterOf(call[t].op) = "outgoing"
                   THEN call[t].val ELSE outgoing
    /\ call' = [call EXCEPT ![t].at = "open",
                            ![t].old = sequence_numbers[CounterOf(call[t].op)]]
    /\ UNCHANGED <<session, seqFile, seqLock, returned>>

\* persist: OpenOptions write and create; a missing file is created empty.
PersistOpen(t) ==
    /\ call[t].at = "open"
    /\ seqFile' = IF seqFile = NoFile THEN EmptyFile ELSE seqFile
    /\ call' = [call EXCEPT ![t].at = "truncate"]
    /\ UNCHANGED <<session, incoming, outgoing, seqLock, returned>>

\* persist: std::fs::write opens the file again and truncates it.
FsWriteTruncate(t) ==
    /\ call[t].at = "truncate"
    /\ seqFile' = EmptyFile
    /\ call' = [call EXCEPT ![t].at = "write"]
    /\ UNCHANGED <<session, incoming, outgoing, seqLock, returned>>

\* persist: std::fs::write writes the serialized pair.
FsWriteAll(t) ==
    /\ call[t].at = "write"
    /\ seqFile' = to_string(sequence_numbers)
    /\ call' = [call EXCEPT ![t].at = "return"]
    /\ UNCHANGED <<session, incoming, outgoing, seqLock, returned>>

\* The mutation returns: the guard is dropped and the Mutex is free.
Return(t) ==
    /\ call[t].at = "return"
    /\ seqLock' = "free"
    /\ returned' = [returned EXCEPT ![call[t].op] = @ + 1]
    /\ call' = [call EXCEPT ![t] = NoCall]
    /\ UNCHANGED <<session, seqStore>>

\* FixMessage::parse: the map of a raw message of well-formed fields.
Parse(fields, required_fields) ==
    /\ valid = "none" /\ ~checked.parsed
    /\ checked' = [parsed |-> TRUE, fields |-> fields,
                   required_fields |-> required_fields]
    /\ UNCHANGED <<sessionThreads, socket, orderStore, seqStore, seqLock, call,
                   returned, ocall, oreturned, valid>>

\* fix_message.validate(required_fields, valid_msg_types, msgnumber_fields_map).
Validate ==
    /\ valid = "none" /\ checked.parsed
    /\ valid' = IF validate_fields(checked.fields, checked.required_fields)
                THEN "true" ELSE "false"
    /\ UNCHANGED <<sessionThreads, socket, orderStore, seqStore, seqLock, call,
                   returned, ocall, oreturned, checked>>

\* The override maps handed to msgtype2fixmsg: none, a Symbol, a Symbol
\* with a '#', a Symbol that brings the sum of the bytes to 255 modulo 256,
\* an OrdStatus given by its value, a key outside the dictionary.
OverrideMaps ==
    { <<>>,
      << <<"Symbol", <<66>> >> >>,
      << <<"Symbol", <<65, Hash>> >> >>,
      << <<"Symbol", <<66, 122>> >> >>,
      << <<"OrdStatus", Zero>> >>,
      << <<"X", <<49>> >> >> }

\* The sequence numbers handed to the encoders.
SeqNums == {1, 10}

\* A handler builds a message from a template.
EncodeTemplate(msgtype, override_map, msg_seq_num, now_text) ==
    /\ encoded = NoEncoded
    /\ encoded' = [by |-> "msgtype2fixmsg", name |-> msgtype,
                   bytes |-> msgtype2fixmsg_bytes(msgtype, override_map,
                                                  msg_seq_num, now_text),
                   map |-> merge(predefined_msg_bytes[msgtype], override_map),
                   n |-> msg_seq_num]
    /\ UNCHANGED <<threadVars, socket, validator, orderStore, seqStore, seqLock,
                   call, returned, ocall, oreturned, pair, decoded>>

\* handle_cmd_line builds a message from a field map.
EncodeFieldmap(msg_map, msg_seq_num, now_text, overflow_checks) ==
    /\ encoded = NoEncoded
    /\ encoded' = [by |-> "fixmap2fixmsg", name |-> "",
                   bytes |-> fixmap2fixmsg_bytes(msg_map, msg_seq_num, now_text,
                                                 overflow_checks),
                   map |-> msg_map, n |-> msg_seq_num]
    /\ UNCHANGED <<threadVars, socket, validator, orderStore, seqStore, seqLock,
                   call, returned, ocall, oreturned, pair, decoded>>

\* The message goes over the wire in SOH form and the peer decodes it.
Decode ==
    /\ encoded.by # "none" /\ encoded.bytes # Panicked /\ ~decoded.done
    /\ LET r == fixmsg2msgtype_bytes(replace(encoded.bytes, Pipe, <<SOH>>))
       IN  decoded' = [msgtype |-> r.msgtype, msg_map |-> r.msg_map, done |-> TRUE]
    /\ UNCHANGED <<threadVars, socket, validator, orderStore, seqStore, seqLock,
                   call, returned, ocall, oreturned, pair, encoded>>

\* What one engine alone is; two connected engines leave it as it is.
single == <<threadVars, codec, socket, validator, orderStore, seqStore, seqLock,
            call, returned, ocall, oreturned>>

\* main of instance e: get_sequence_store loads the counters in its file.
PairStart(e, inc, out) ==
    /\ eng[e].at = "off"
    /\ eng' = [eng EXCEPT ![e] = [@ EXCEPT !.at = "loaded",
                                           !.incoming = inc, !.outgoing = out]]
    /\ UNCHANGED <<chan, single>>

\* The initiator connects and send_logon_message sends its Logon; the
\* acceptor accepts; both call handle_stream.
PairLogon ==
    /\ \A e \in Engines : eng[e].at = "loaded"
    /\ chan' = [chan EXCEPT !["acceptor"] = Append(@,
                   msgtype2fixmsg("Logon", NoOverride, eng["initiator"].outgoing))]
    /\ eng' = [e \in Engines |->
                 IF e = "initiator"
                 THEN [eng[e] EXCEPT !.at = "up", !.outgoing = @ + 1,
                                     !.sentLogon = TRUE]
                 ELSE [eng[e] EXCEPT !.at = "up"]]
    /\ UNCHANGED single

\* The reader of instance e reads the next message of the other instance,
\* sends the response and increments outgoing; after a Logout the process
\* exits.
PairRead(e) ==
    /\ eng[e].at = "up" /\ chan[e] # <<>>
    /\ LET r == process_fix_message_of(received(Head(chan[e])), eng[e],
                                       e = "initiator")
           sends == r.response # EmptyResponse
       IN  /\ sends => r.s.outgoing < MaxPairSeq
           /\ chan' = [x \in Engines |->
                         IF x = e THEN Tail(chan[e])
                         ELSE IF sends THEN Append(chan[x], r.response)
                         ELSE chan[x]]
           /\ eng' = [x \in Engines |->
                        IF x = e
                        THEN [r.s EXCEPT
                                !.outgoing = IF sends THEN @ + 1 ELSE @,
                                !.at = IF r.response.type = "Logout"
                                       THEN "exited" ELSE @,
                                !.asked = IF r.response.type = "Resend_Request"
                                             /\ @ = NoVal
                                          THEN r.s.incoming ELSE @]
                        ELSE [eng[x] EXCEPT
                                !.answered =
                                    @ \/ r.response.type = "Sequence_Reset"]]
    /\ UNCHANGED single

\* The ticker of instance e at its deadline: perform_task sends a Logon
\* or a Heartbeat and increments outgoing.
PairTick(e) ==
    /\ eng[e].at = "up" /\ eng[Other(e)].at = "up"
    /\ eng[e].outgoing < MaxPairSeq
    /\ chan' = [chan EXCEPT ![Other(e)] = Append(@,
                   msgtype2fixmsg(IF ~eng[e].receivedLogon THEN "Logon"
                                  ELSE "Heartbeat",
                                  NoOverride, eng[e].outgoing))]
    /\ eng' = [eng EXCEPT ![e].outgoing = @ + 1]
    /\ UNCHANGED single

\* The other instance has exited and its messages are read: read returns
\* Ok(0) and the process exits.
PairEof(e) ==
    /\ eng[e].at = "up" /\ eng[Other(e)].at = "exited" /\ chan[e] = <<>>
    /\ eng' = [eng EXCEPT ![e].at = "exited"]
    /\ UNCHANGED <<chan, single>>

\* Calls of send_message that were made.
SendsMade == Cardinality({i \in 1..Len(wire) : wire[i].first})
             + Cardinality({t \in Threads : sending[t].left = MsgBytes})

\* A thread calls send_message with a message of MsgBytes bytes.
SendCall(t) ==
    /\ sending[t].at = "idle" /\ SendsMade < MaxSends
    /\ sending' = [sending EXCEPT ![t] =
                      [at |-> "lock", left |-> MsgBytes, n |-> SendsMade + 1]]
    /\ UNCHANGED <<sessionThreads, validator, orderStore, seqStore, seqLock, call,
                   returned, ocall, oreturned, streamLock, wire>>

\* stream.lock(): the caller waits until the Mutex it was given is free.
StreamLock(t) ==
    /\ sending[t].at = "lock" /\ streamLock[MutexOf(t)] = "free"
    /\ streamLock' = [streamLock EXCEPT ![MutexOf(t)] = t]
    /\ sending' = [sending EXCEPT ![t].at = "write"]
    /\ UNCHANGED <<sessionThreads, validator, orderStore, seqStore, seqLock, call,
                   returned, ocall, oreturned, wire>>

\* write_all: one write on the socket takes k of the bytes that are left;
\* the loop goes on while bytes are left.
StreamWrite(t, k) ==
    /\ sending[t].at = "write" /\ k \in 1..sending[t].left
    /\ wire' = Append(wire, [by |-> t, n |-> sending[t].n,
                              first |-> sending[t].left = MsgBytes,
                              last |-> k = sending[t].left])
    /\ sending' = [sending EXCEPT ![t].left = @ - k,
                                  ![t].at = IF k = sending[t].left
                                            THEN "flush" ELSE "write"]
    /\ UNCHANGED <<sessionThreads, validator, orderStore, seqStore, seqLock, call,
                   returned, ocall, oreturned, streamLock>>

\* stream.flush() and the return: the guard is dropped.
StreamReturn(t) ==
    /\ sending[t].at = "flush"
    /\ streamLock' = [streamLock EXCEPT ![MutexOf(t)] = "free"]
    /\ sending' = [sending EXCEPT ![t] = NoSend]
    /\ UNCHANGED <<sessionThreads, validator, orderStore, seqStore, seqLock, call,
                   returned, ocall, oreturned, wire>>

\* Calls on the order store that were made: returned or still inside.
OrderCallsMade ==
    oreturned["ok"] + oreturned["not_found"] + oreturned["capacity"]
    + Cardinality({t \in Threads : ocall[t].at # "idle"})

\* The map a call leaves when it runs on store.
Applied(c, store) ==
    CASE c.op = "add_order" -> add_order(store, c.id, Order(c.status))
      [] c.op = "update_order" -> update_order(store, c.id, Order(c.status))
      [] c.op = "remove_order" -> remove_order(store, c.id)
      [] OTHER -> store

\* A thread calls add_order, update_order or remove_order.
OrderCall(t, op, id, status) ==
    /\ ocall[t].at = "idle" /\ OrderCallsMade < MaxOrdCalls
    /\ ocall' = [ocall EXCEPT ![t] =
                    [NoOrderCall EXCEPT !.op = op, !.at = "write", !.id = id,
                                        !.status = status]]
    /\ UNCHANGED <<sessionThreads, socket, validator, seqStore, seqLock, call, returned,
                   orderStore, oreturned>>

\* The block under orders.write(): the map is changed and the lock is
\* released; update_order on an id that is not in the map returns Err.
Mutate(t) ==
    /\ ocall[t].at = "write"
    /\ orders' = Applied(ocall[t], orders)
    /\ IF ocall[t].op = "update_order" /\ ocall[t].id \notin DOMAIN orders
       THEN /\ ocall' = [ocall EXCEPT ![t] = NoOrderCall]
            /\ oreturned' = [oreturned EXCEPT !["not_found"] = @ + 1]
       ELSE /\ ocall' = [ocall EXCEPT ![t].at = "read", ![t].old = orders]
            /\ UNCHANGED oreturned
    /\ UNCHANGED <<sessionThreads, socket, validator, seqStore, seqLock, call, returned, ordFile>>

\* persist, the block under orders.read(): the map is serialized.
Serialize(t) ==
    /\ ocall[t].at = "read"
    /\ ocall' = [ocall EXCEPT ![t].at = "flush", ![t].bytes = serialize(orders)]
    /\ UNCHANGED <<sessionThreads, socket, validator, seqStore, seqLock, call, returned,
                   orderStore, oreturned>>

\* persist, the length check and the copy under mmap.write(): the call
\* returns Err when the bytes are longer than the region, and Ok after
\* the copy and the flush otherwise.
Flush(t) ==
    /\ ocall[t].at = "flush"
    /\ IF Fits(ocall[t].bytes)
       THEN /\ ordFile' = copy_from_slice(ordFile, ocall[t].bytes)
            /\ oreturned' = [oreturned EXCEPT !["ok"] = @ + 1]
       ELSE /\ ordFile' = ordFile
            /\ oreturned' = [oreturned EXCEPT !["capacity"] = @ + 1]
    /\ ocall' = [ocall EXCEPT ![t] = NoOrderCall]
    /\ UNCHANGED <<sessionThreads, socket, validator, seqStore, seqLock, call, returned, orders>>

\* The process dies, wherever its threads are, and is started again on the
\* same files: SequenceNumberStore::new loads the counters, OrderStore::new
\* maps the order file and starts from an empty map.
Restart ==
    /\ restarts < MaxRestarts
    /\ restarts' = restarts + 1
    /\ incoming' = new(seqFile).incoming
    /\ outgoing' = new(seqFile).outgoing
    /\ initSeq' = new(seqFile)
    /\ seqLock' = "free"
    /\ call' = [t \in Threads |-> NoCall]
    /\ orders' = [i \in {} |-> Order("New")]
    /\ ocall' = [t \in Threads |-> NoOrderCall]
    /\ UNCHANGED <<isInitiator, enableCmdLine, seqFile, returned, ordFile, socket,
                   validator, codec, pair,
                   oreturned, flags, lastSent, clock, pc, resp, wrote,
                   readerLocals, exited, nCmd>>

\* ------------------------------------------------------------------- Next
\* The engine with the console switched off ([session] enable_cmd_line).
InitNoConsole == Init /\ ~enableCmdLine

\* The engine with the console switched on.
InitConsole == Init /\ enableCmdLine

NextNoConsole ==
    \/ MainConnect
    \/ MainAccept
    \/ LogonWrite
    \/ LogonInc
    \/ \E m \in InboundMsgs : ReaderRead(m)
    \/ ReaderWrite
    \/ ReaderInc
    \/ ReaderStamp
    \/ ReaderNext
    \/ ReaderEof
    \/ ReaderErr
    \/ TickerCheck
    \/ TickerWrite
    \/ TickerInc
    \/ TickerStamp
    \/ AdvanceClock

\* Two connected engines; the operating system schedules the reader and
\* the ticker of each, so none of them waits for ever.
NextPair ==
    \/ \E e \in Engines : \E inc, out \in 1..MaxInitSeq : PairStart(e, inc, out)
    \/ PairLogon
    \/ \E e \in Engines : PairRead(e)
    \/ \E e \in Engines : PairTick(e)
    \/ \E e \in Engines : PairEof(e)

FairPair ==
    /\ \A e \in Engines : WF_vars(\E inc, out \in 1..MaxInitSeq : PairStart(e, inc, out))
    /\ WF_vars(PairLogon)
    /\ \A e \in Engines : WF_vars(PairRead(e))
    /\ \A e \in Engines : WF_vars(PairTick(e))
    /\ \A e \in Engines : WF_vars(PairEof(e))

\* Neither instance has started.
InitPair == InitNoConsole /\ ~isInitiator /\ seqFile = NoFile

SpecPair == InitPair /\ [][NextPair]_vars /\ FairPair

\* A session in which the two stores of the LOGON arm are followed one by
\* one; every other buffer is handled in one step.
NextLogon ==
    \/ MainConnect
    \/ MainAccept
    \/ LogonWrite
    \/ LogonInc
    \/ \E m \in InboundMsgs : ~LogonArm(m) /\ ReaderRead(m)
    \/ \E m \in InboundMsgs : ReaderLogonReceived(m)
    \/ ReaderLogonSent
    \/ ReaderWrite
    \/ ReaderInc
    \/ ReaderStamp
    \/ ReaderNext
    \/ ReaderEof
    \/ ReaderErr
    \/ TickerCheck
    \/ TickerWrite
    \/ TickerInc
    \/ TickerStamp
    \/ AdvanceClock

SpecLogon == InitNoConsole /\ [][NextLogon]_vars

\* A session in which the reads fall anywhere on the peer's stream.
NextFraming ==
    \/ MainConnect
    \/ MainAccept
    \/ LogonWrite
    \/ LogonInc
    \/ \E b \in Buffers : ReaderRead(b)
    \/ ReaderWrite
    \/ ReaderInc
    \/ ReaderStamp
    \/ ReaderNext
    \/ ReaderEof
    \/ ReaderErr
    \/ TickerCheck
    \/ TickerWrite
    \/ TickerInc
    \/ TickerStamp
    \/ AdvanceClock

SpecFraming == InitNoConsole /\ [][NextFraming]_vars

\* The peer's Logon messages: all an otherwise silent peer sends.
LogonIn == { m \in PlainIn : m.type = "LOGON" }

\* The engine with a peer that logs on and is then silent, the clock
\* followed tick by tick.
NextIdle ==
    \/ MainConnect
    \/ MainAccept
    \/ LogonWrite
    \/ LogonInc
    \/ \E m \in LogonIn : ReaderRead(m)
    \/ ReaderWrite
    \/ ReaderInc
    \/ ReaderStamp
    \/ ReaderNext
    \/ TickerCheck
    \/ TickerWrite
    \/ TickerInc
    \/ TickerStamp
    \/ AdvanceTick

Next ==
    \/ NextNoConsole
    \/ \E m \in ConsoleMsgs : ConsoleInput(m)
    \/ ConsoleWrite
    \/ ConsoleInc
    \/ ConsoleStamp

Spec == InitNoConsole /\ [][NextNoConsole]_vars

SpecConsole == InitConsole /\ [][Next]_vars
SpecIdle == InitNoConsole /\ [][NextIdle]_vars

\* The store as main builds it, before any thread has called it.
InitStore == InitNoConsole /\ ~isInitiator

\* Threads that share the store call its mutations in any order.
NextStore ==
    \E t \in Threads :
        \/ \E op \in Mutations, n \in 1..MaxNewSeqNo : StoreCall(t, op, n)
        \/ MutexLock(t)
        \/ Load(t)
        \/ Store(t)
        \/ PersistOpen(t)
        \/ FsWriteTruncate(t)
        \/ FsWriteAll(t)
        \/ Return(t)

SpecStore == InitStore /\ [][NextStore]_vars

\* The store with a process that can die at any step and start again.
NextRestart ==
    \/ NextStore
    \/ Restart

SpecRestart == InitStore /\ [][NextRestart]_vars

\* The reader before it has parsed a message.
InitValidate == InitStore /\ seqFile = NoFile

\* Every parsed message, with every list of required header fields, is
\* handed to validate.
NextValidate ==
    \/ \E fields \in FixFields, required_fields \in RequiredFieldLists :
          Parse(fields, required_fields)
    \/ Validate

SpecValidate == InitValidate /\ [][NextValidate]_vars

\* Every template with every override map, and every field map, is
\* encoded, and what was encoded is decoded.
NextCodec ==
    \/ \E msgtype \in DOMAIN predefined_msg_bytes, o \in OverrideMaps,
          n \in SeqNums, ts \in Timestamps : EncodeTemplate(msgtype, o, n, ts)
    \/ \E msgtype \in DOMAIN predefined_msg_bytes, o \in OverrideMaps,
          n \in SeqNums, ts \in Timestamps, oc \in BOOLEAN :
          EncodeFieldmap(merge(predefined_msg_bytes[msgtype], o), n, ts, oc)
    \/ Decode

SpecCodec == InitValidate /\ [][NextCodec]_vars

\* A session with the console on, before any thread has sent.
InitSocket == InitConsole /\ seqFile = NoFile

\* The threads of a session send in any order.
NextSocket ==
    \E t \in Threads :
        \/ SendCall(t)
        \/ StreamLock(t)
        \/ \E k \in 1..MsgBytes : StreamWrite(t, k)
        \/ StreamReturn(t)

SpecSocket == InitSocket /\ [][NextSocket]_vars

\* The statuses update_order_in_store is called with.
UpdateStatuses == {"Replaced", "Canceled"}

\* The order store as main builds it on a new file, with the sequence
\* store on a new file too.
InitOrders == InitStore /\ seqFile = NoFile

\* Threads that share the order store call it in any order, and the
\* process can die at any step and start again.
NextOrders ==
    \/ \E t \in Threads :
          \/ \E id \in 1..MaxOrderId : OrderCall(t, "add_order", id, "New")
          \/ \E id \in 1..MaxOrderId, st \in UpdateStatuses :
                OrderCall(t, "update_order", id, st)
          \/ \E id \in 1..MaxOrderId : OrderCall(t, "remove_order", id, "")
          \/ Mutate(t)
          \/ Serialize(t)
          \/ Flush(t)
    \/ Restart

SpecOrders == InitOrders /\ [][NextOrders]_vars

\* ------------------------------------------------------------ type check
TypeOK ==
    /\ isInitiator \in BOOLEAN /\ enableCmdLine \in BOOLEAN
    /\ incoming \in Nat /\ outgoing \in Nat
    /\ sentLogon \in BOOLEAN /\ receivedLogon \in BOOLEAN
    /\ isLoggedOn \in BOOLEAN
    /\ now \in Nat /\ sleepLeft \in 0..TicksPerSecond
    /\ lastSentTime \in {NoVal} \cup Nat
    /\ sentAt \in {NoVal} \cup Nat
    /\ seqLock \in {"free"} \cup Threads /\ restarts \in 0..MaxRestarts
    /\ \A t \in Threads : call[t].op \in {"none"} \cup Mutations
    /\ \A op \in Mutations : returned[op] \in 0..MaxCalls
    /\ inType \in {""} \cup AdminTypes \cup OrderTypes \cup OtherAppTypes
    /\ branch \in {"none", "equal", "higher", "lower"}
    /\ handler \in {"none", "admin", "business"}
    /\ path \in {"none", "admin", "business", "resend", "logout"}
    /\ exited \in {"no"} \cup Exits
    /\ nIn \in 0..MaxIn /\ nCmd \in 0..MaxCmd
    /\ accepted \in 0..MaxIn /\ tickerSends \in Nat
    /\ Len(ordFile) = MmapLen
    /\ \A t \in Threads : ocall[t].at \in {"idle", "write", "read", "flush"}
    /\ \A r \in OrderResults : oreturned[r] \in 0..MaxOrdCalls
    /\ \A t \in Threads : sending[t].at \in {"idle", "lock", "write", "flush"}
    /\ \A x \in StreamMutexes : streamLock[x] \in {"free"} \cup Threads
    /\ Len(wire) <= MaxSends * MsgBytes
    /\ checked.fields \in FixFields /\ valid \in {"none", "true", "false"}
    /\ encoded.by \in {"none", "msgtype2fixmsg", "fixmap2fixmsg"}
    /\ decoded.done \in BOOLEAN
    /\ \A e \in Engines :
          /\ eng[e].at \in {"off", "loaded", "up", "exited"}
          /\ eng[e].incoming \in 1..(MaxPairSeq + 1)
          /\ eng[e].outgoing \in 1..(MaxPairSeq + 1)
          /\ Len(chan[e]) <= 2 * MaxPairSeq

\* ------------------------------------------------------------------ claims
\* The reader is about to read: process_fix_message(m) is what it would do
\* with the buffer m in this state.
AtRead == Running /\ pc[Reader] = "read"

\* C1: a validated inbound message whose MsgSeqNum equals the incoming
\* counter advances incoming by exactly one and is given to the admin
\* handler when its type is in the admin list, to the business handler
\* otherwise.
C1_InOrderDispatch ==
    /\ AtRead =>
          \A m \in InboundMsgs :
              (Validated(m) /\ m.seq = incoming) =>
                  /\ process_fix_message(m).incoming = incoming + 1
                  /\ process_fix_message(m).handler =
                        IF m.type \in admin_msg_list THEN "admin" ELSE "business"
    /\ branch = "equal" =>
          handler = IF inType \in admin_msg_list THEN "admin" ELSE "business"

\* C1 happens: two messages in sequence, the last one an application message.
C1_Witness ==
    /\ accepted = 2 /\ incoming = initSeq.incoming + 2
    /\ branch = "equal" /\ handler = "business" /\ inType = "NEW_ORDER_SINGLE"

\* C2: a validated inbound message that is no SequenceReset and whose
\* MsgSeqNum is greater than incoming makes the reader build exactly one
\* ResendRequest with BeginSeqNo = incoming and EndSeqNo = 0 and hand it to
\* one write; incoming is not advanced, no handler runs and the order store
\* is unchanged.
C2_GapResend ==
    /\ AtRead =>
          \A m \in InboundMsgs :
              (Validated(m) /\ m.type # "SEQUENCE_RESET" /\ m.seq > incoming) =>
                  LET r == process_fix_message(m)
                  IN  /\ r.response.type = "Resend_Request"
                      /\ r.response.beginSeqNo = incoming
                      /\ r.response.endSeqNo = 0
                      /\ r.path = "resend"
                      /\ r.incoming = incoming
                      /\ r.handler = "none"
                      /\ r.orders = orders
                      /\ ~r.panicked
    /\ (branch = "higher" /\ inType # "SEQUENCE_RESET") =>
          /\ path = "resend" /\ handler = "none"
          /\ pc[Reader] \in {"write", "inc", "next"}
          /\ resp[Reader].type = "Resend_Request"
          /\ resp[Reader].beginSeqNo = incoming
          /\ resp[Reader].endSeqNo = 0
    /\ path = "resend" => (branch = "higher" /\ inType # "SEQUENCE_RESET")

\* C2 happens: the ResendRequest for a gap after an order was stored is on
\* the wire and the store still holds that order only.
C2_Witness ==
    /\ path = "resend" /\ pc[Reader] = "inc" /\ wrote[Reader]
    /\ resp[Reader].beginSeqNo = incoming /\ incoming = initSeq.incoming + 1
    /\ inType = "NEW_ORDER_SINGLE" /\ DOMAIN orders = {1}

\* The ways thread t ends the process.
ExitsOf(t) ==
    CASE t = Reader -> {"logout", "eof"}
      [] t = Ticker -> {"ticker"}
      [] OTHER -> {"main"}

\* Thread t takes a step of its own: its position changes, and the process
\* was not ended by another thread.
Stepped(t) == pc'[t] # pc[t] /\ exited' \in {"no"} \cup ExitsOf(t)

ReaderStepped == Stepped(Reader)

\* C3: a validated inbound message whose MsgSeqNum is less than incoming
\* makes the reader build one Logout whose Text names the expected and the
\* received number; after the write it increments outgoing and ends the
\* process; incoming is unchanged, no handler runs, and the reader reads
\* nothing more.
C3_TooLowInv ==
    /\ AtRead =>
          \A m \in InboundMsgs :
              (Validated(m) /\ m.seq < incoming) =>
                  LET r == process_fix_message(m)
                  IN  /\ r.response.type = "Logout"
                      /\ r.response.textExpected = incoming
                      /\ r.response.textReceived = m.seq
                      /\ r.path = "logout"
                      /\ r.incoming = incoming
                      /\ r.handler = "none"
                      /\ r.orders = orders
    /\ branch = "lower" =>
          /\ path = "logout" /\ handler = "none"
          /\ pc[Reader] \in {"write", "inc"}
          /\ resp[Reader].type = "Logout"
          /\ resp[Reader].textExpected = incoming
          /\ resp[Reader].textReceived < incoming
    /\ path = "logout" => branch = "lower"

C3_TooLowStep ==
    /\ (path = "logout" /\ pc[Reader] = "inc" /\ ReaderStepped) =>
          (outgoing' = outgoing + 1 /\ exited' = "logout")
    /\ (path = "logout" \/ ~Running) => nIn' # nIn + 1

C3_TooLow == []C3_TooLowInv /\ [][C3_TooLowStep]_vars

\* C3 happens: the Logout for a message numbered below incoming is on the
\* wire and the reader is about to increment outgoing and end the process.
C3_Witness ==
    /\ path = "logout" /\ pc[Reader] = "inc" /\ wrote[Reader]
    /\ resp[Reader].textExpected = 2 /\ resp[Reader].textReceived = 1
    /\ ENABLED ReaderInc

\* C4: an inbound SequenceReset with NewSeqNo = N whose MsgSeqNum is equal
\* to or greater than incoming sets outgoing to N and builds no reply;
\* incoming advances by one only when MsgSeqNum equals incoming.
C4_SequenceReset ==
    /\ AtRead =>
          \A m \in InboundMsgs :
              (/\ Validated(m) /\ m.type = "SEQUENCE_RESET"
               /\ m.newSeqNo >= 0 /\ m.seq >= incoming) =>
                  LET r == process_fix_message(m)
                  IN  /\ r.outgoing = m.newSeqNo
                      /\ r.response = EmptyResponse
                      /\ r.incoming =
                            IF m.seq = incoming THEN incoming + 1 ELSE incoming
    /\ (inType = "SEQUENCE_RESET" /\ branch \in {"equal", "higher"}) =>
          /\ resp[Reader] = EmptyResponse
          /\ pc[Reader] \in {"next", "dead"}
          /\ ~wrote[Reader]

\* C4 happens: a SequenceReset numbered above incoming has set outgoing
\* back below the value the sequence file held, and incoming is as it was.
C4_Witness ==
    /\ inType = "SEQUENCE_RESET" /\ branch = "higher" /\ pc[Reader] = "next"
    /\ outgoing = 1 /\ initSeq.outgoing = 2 /\ tickerSends = 0
    /\ incoming = initSeq.incoming

\* The positions where a thread has written and calls increment_outgoing.
IncPcs == {"inc", "cinc"}

\* C5: every message a thread builds carries MsgSeqNum = outgoing as read
\* when it was built; a write that succeeds takes the thread to its
\* increment, its next own step raises outgoing by exactly one and leaves
\* the send, and outgoing changes in no other way than by such an increment
\* or by a SequenceReset the reader takes.
C5_Step ==
    /\ \A t \in Threads :
          /\ (resp'[t] # resp[t] /\ resp'[t] # EmptyResponse) =>
                resp'[t].seq = outgoing
          /\ (~wrote[t] /\ wrote'[t]) =>
                (pc'[t] \in IncPcs /\ resp'[t] = resp[t] /\ outgoing' = outgoing)
          /\ (pc[t] \in IncPcs /\ Stepped(t)) =>
                (outgoing' = outgoing + 1 /\ pc'[t] \notin IncPcs \cup {"write", "cwrite"})
    /\ outgoing' # outgoing =>
          \/ \E t \in Threads : pc[t] \in IncPcs /\ Stepped(t)
          \/ nIn' = nIn + 1 /\ inType' = "SEQUENCE_RESET"

C5_WriteThenIncrement == [][C5_Step]_vars

\* C5 happens: the console has written a message numbered with the counter
\* it read, after the ticker and the reader have sent theirs.
C5_Witness ==
    /\ pc[Main] = "cinc" /\ wrote[Main] /\ resp[Main].seq = outgoing
    /\ tickerSends = 1 /\ outgoing = initSeq.outgoing + 2

\* C6: when the write of an outbound message fails, the thread that tried
\* to send it leaves outgoing as it is.
C6_Step ==
    \A t \in Threads :
        (pc[t] \in IncPcs /\ ~wrote[t] /\ Stepped(t)) => outgoing' = outgoing

C6_FailedWriteKeepsOutgoing == [][C6_Step]_vars

\* The sequence file was missing or held 1 and 1 when the engine started.
FreshStore == initSeq = [incoming |-> 1, outgoing |-> 1]

\* C7: from a fresh sequence store incoming is 1 plus the number of
\* validated inbound messages whose MsgSeqNum equalled incoming when they
\* arrived; a buffer that fails validation and a message numbered above
\* incoming (SequenceReset included) leave incoming as it is.
C7_IncomingCountsAccepted ==
    /\ FreshStore => incoming = 1 + accepted
    /\ AtRead =>
          \A m \in InboundMsgs :
              (~Validated(m) \/ m.seq > incoming) =>
                  process_fix_message(m).incoming = incoming

\* C7 happens: of two messages read from a fresh store the first was in
\* sequence and the second, a SequenceReset, was numbered above incoming.
C7_Witness ==
    /\ FreshStore /\ nIn = 2 /\ accepted = 1 /\ incoming = 2
    /\ branch = "higher" /\ inType = "SEQUENCE_RESET"

\* The first buffer the reader took was the peer's Logon, in sequence.
PeerLogonAccepted == nIn = 1 /\ inType = "LOGON" /\ branch = "equal"

\* C8: an initiator that starts from a fresh sequence store writes one
\* Logon numbered 1 and then has sent_logon set; when the peer's Logon
\* numbered 1 is the first message it accepts, received_logon is set, no
\* reply is built, incoming is 2, and outgoing is 2 as long as the ticker
\* has written nothing.
C8_InitiatorLogon ==
    (isInitiator /\ FreshStore /\ Running) =>
        /\ pc[Main] \in {"write", "inc"} =>
              (resp[Main].type = "Logon" /\ resp[Main].seq = 1 /\ ~sentLogon)
        /\ pc[Main] \notin {"connect", "write", "inc"} =>
              (sentLogon /\ resp[Main] = EmptyResponse)
        /\ PeerLogonAccepted =>
              /\ receivedLogon
              /\ resp[Reader] = EmptyResponse /\ pc[Reader] = "next"
              /\ incoming = 2
              /\ tickerSends = 0 => outgoing = 2

\* C8 happens: the initiator has sent its Logon, the peer's Logon numbered 1
\* was accepted, and the ticker has written nothing.
C8_Witness ==
    /\ isInitiator /\ FreshStore /\ PeerLogonAccepted
    /\ sentLogon /\ receivedLogon /\ tickerSends = 0
    /\ incoming = 2 /\ outgoing = 2

\* C9: once an initiator has accepted the peer's Logon, is_logged_on is
\* true.
C9_InitiatorLoggedOn == (isInitiator /\ receivedLogon) => isLoggedOn

\* C10: an acceptor with sent_logon false that accepts the peer's Logon
\* numbered incoming builds one Logon numbered outgoing and sets sent_logon
\* and received_logon; after the write it raises outgoing by one.
C10_Inv ==
    /\ (AtRead /\ ~isInitiator /\ ~sentLogon) =>
          \A m \in InboundMsgs :
              (Validated(m) /\ m.type = "LOGON" /\ m.seq = incoming) =>
                  LET r == process_fix_message(m)
                  IN  /\ r.response.type = "Logon"
                      /\ r.response.seq = outgoing
                      /\ r.sentLogon /\ r.receivedLogon
                      /\ r.outgoing = outgoing
                      /\ r.path = "admin"
    /\ (~isInitiator /\ inType = "LOGON" /\ branch = "equal"
            /\ resp[Reader] # EmptyResponse) =>
          /\ sentLogon /\ receivedLogon
          /\ resp[Reader].type = "Logon"
          /\ pc[Reader] \in {"write", "inc", "stamp", "next"}

C10_Step ==
    (~isInitiator /\ inType = "LOGON" /\ branch = "equal"
        /\ pc[Reader] = "inc" /\ Stepped(Reader)) =>
        (outgoing' = outgoing + 1 /\ pc'[Reader] = "stamp")

C10_AcceptorLogon == []C10_Inv /\ [][C10_Step]_vars

\* C10 happens: the acceptor's Logon reply is written, both flags are set
\* and outgoing is one above the value the reply carries.
C10_Witness ==
    /\ ~isInitiator /\ inType = "LOGON" /\ branch = "equal"
    /\ pc[Reader] = "stamp" /\ wrote[Reader]
    /\ sentLogon /\ receivedLogon
    /\ resp[Reader].type = "Logon" /\ outgoing = resp[Reader].seq + 1

\* The ticker's tick: its sleep has returned and check_interval runs.
Ticked == Running /\ woken /\ sleepLeft' # 0 /\ exited' = "no"

\* A send has stored last_sent_time; the ticks that have passed since.
Sent == sentAt # NoVal
SinceSent == now - sentAt

\* C11: on a tick where heartbeat_seconds have passed since the last send
\* the ticker sends exactly one message, a Logon while received_logon is
\* false and a Heartbeat otherwise, then raises outgoing by one and sets
\* last_sent_time to the current time; on a tick where they have not
\* passed it sends nothing and changes no counter, flag or order. So with
\* heartbeat_seconds = 1 the first Heartbeat of an idle session comes no
\* sooner than one second after the logon, and one and a half idle seconds
\* hold exactly one Heartbeat.
C11_Step ==
    /\ (Ticked /\ Sent /\ SinceSent >= heart_bt_int * TicksPerSecond) =>
          /\ pc'[Ticker] = "write"
          /\ resp'[Ticker].type = (IF ~receivedLogon THEN "Logon" ELSE "Heartbeat")
          /\ resp'[Ticker].seq = outgoing
    /\ (Ticked /\ Sent /\ SinceSent < heart_bt_int * TicksPerSecond) =>
          /\ pc'[Ticker] = "sleep" /\ resp' = resp /\ wrote' = wrote
          /\ UNCHANGED <<seqStore, flags, orders, sentAt>>
    /\ (pc[Ticker] = "write" /\ Stepped(Ticker) /\ exited' = "no") =>
          (wrote'[Ticker] /\ pc'[Ticker] = "inc" /\ outgoing' = outgoing)
    /\ (pc[Ticker] = "inc" /\ Stepped(Ticker)) =>
          (outgoing' = outgoing + 1 /\ pc'[Ticker] = "stamp")
    /\ (pc[Ticker] = "stamp" /\ Stepped(Ticker)) =>
          (sentAt' = now /\ pc'[Ticker] = "sleep")

C11_Ticker == [][C11_Step]_vars

\* The reader would accept m: it is validated and carries the expected
\* MsgSeqNum.
Accepts(m) == Validated(m) /\ m.seq = incoming

\* The reader has accepted an inbound message of type t and is sending, or
\* has sent, its reply.
Replying(t) ==
    /\ inType = t /\ branch = "equal"
    /\ pc[Reader] \in {"write", "inc", "next"}

\* C12: on an acceptor an accepted NewOrderSingle that has all seven order
\* fields adds an order keyed by ClOrdID with status New to the order store
\* and makes the engine send exactly one ExecutionReport with ExecType 0
\* and OrdStatus 0.
C12_NewOrderStored ==
    (AtRead /\ ~isInitiator) =>
        \A m \in NewOrderIn :
            (Accepts(m) /\ m.ordFields # "missing") =>
                LET r == process_fix_message(m)
                IN  /\ ~r.panicked
                    /\ r.orders = add_order(orders, m.clOrdID, Order("New"))
                    /\ r.response.type = "Execution_Report"
                    /\ r.response.execType = 0
                    /\ r.response.ordStatus = 0

C14_CancelByOrigClOrdID ==
    (AtRead /\ ~isInitiator) =>
        \A m \in CancelIn :
            (/\ Accepts(m) /\ m.type = "ORDER_CANCEL_REQUEST"
             /\ m.ordFields = "ok"
             /\ m.origClOrdID # m.clOrdID
             /\ m.origClOrdID \in DOMAIN orders
             /\ orders[m.origClOrdID] = Order("New")) =>
                LET r == process_fix_message(m)
                IN  /\ m.origClOrdID \in DOMAIN r.orders
                    /\ r.orders[m.origClOrdID] = Order("Canceled")

\* C15: an accepted OrderCancelRequest or OrderCancelReplaceRequest whose
\* OrigClOrdID names an order that is not in the store leaves the store
\* as it was: no entry is added and no order changes.
C15_UnknownIdKeepsStore ==
    AtRead =>
        \A m \in CancelIn :
            (Accepts(m) /\ m.origClOrdID \notin DOMAIN orders) =>
                process_fix_message(m).orders = orders

\* C16: every accepted application message whose type is not
\* NewOrderSingle, OrderCancelReplaceRequest or OrderCancelRequest, an
\* ExecutionReport included, makes the engine send exactly one
\* BusinessMessageReject.
C16_OtherTypesRejected ==
    AtRead =>
        \A m \in PlainIn :
            (Accepts(m) /\ m.type \in OtherAppTypes) =>
                LET r == process_fix_message(m)
                IN  /\ r.handler = "business"
                    /\ r.response.type = "Business_Message_Reject"
                    /\ r.response.seq = outgoing

\* The reader has accepted an order message and has not yet gone on to the
\* next read.
OrderAccepted == inType \in OrderTypes /\ branch = "equal"

C17_Inv ==
    /\ (AtRead /\ isInitiator) =>
          \A m \in NewOrderIn \cup CancelIn :
              Accepts(m) =>
                  LET r == process_fix_message(m)
                  IN  /\ r.response = EmptyResponse
                      /\ r.outgoing = outgoing
    /\ (isInitiator /\ OrderAccepted) =>
          /\ resp[Reader] = EmptyResponse /\ ~wrote[Reader]
          /\ pc[Reader] \in {"next", "dead"}

C17_Step ==
    (isInitiator /\ pc[Reader] = "read" /\ Stepped(Reader)
        /\ inType' \in OrderTypes /\ branch' = "equal") =>
        (outgoing' = outgoing /\ wrote' = wrote)

\* C17: an initiator that accepts a NewOrderSingle, OrderCancelReplaceRequest
\* or OrderCancelRequest sends no reply: no response is built, nothing is
\* written, and outgoing is unchanged, with or without all the fields.
C17_InitiatorSilent == []C17_Inv /\ [][C17_Step]_vars

\* C17 happens: an initiator that has sent its Logon has accepted a cancel
\* request and goes on to the next read with nothing to send.
C17_Witness ==
    /\ isInitiator /\ inType = "ORDER_CANCEL_REQUEST" /\ branch = "equal"
    /\ pc[Reader] = "next" /\ resp[Reader] = EmptyResponse
    /\ incoming = initSeq.incoming + 1 /\ outgoing = initSeq.outgoing + 1
    /\ tickerSends = 0

\* C18: an initiator that accepts a NewOrderSingle, OrderCancelReplaceRequest
\* or OrderCancelRequest leaves the order store as it was.
C18_InitiatorKeepsStore ==
    (AtRead /\ isInitiator) =>
        \A m \in NewOrderIn \cup CancelIn :
            Accepts(m) => process_fix_message(m).orders = orders

\* No thread is inside the store: every call that was made has returned.
AllReturned == \A t \in Threads : call[t].at = "idle"

\* Threads whose call op has stored its new value and has not yet returned.
Stored(op) ==
    Cardinality({t \in Threads :
                    call[t].op = op /\ call[t].at \notin {"lock", "load", "store"}})

\* No set_incoming or set_outgoing has been called.
OnlyIncrements ==
    /\ returned["set_incoming"] = 0 /\ returned["set_outgoing"] = 0
    /\ \A t \in Threads : call[t].op \notin Sets

\* C19: when increment_incoming and increment_outgoing are called from
\* several threads in any interleaving, each counter is its initial value
\* plus the number of increment calls that have stored their value; so
\* when every call has returned it is the initial value plus the number of
\* calls made on it.
C19_NoLostIncrement ==
    OnlyIncrements =>
        /\ incoming = initSeq.incoming + returned["increment_incoming"]
                        + Stored("increment_incoming")
        /\ outgoing = initSeq.outgoing + returned["increment_outgoing"]
                        + Stored("increment_outgoing")
        /\ AllReturned =>
              /\ incoming = initSeq.incoming + returned["increment_incoming"]
              /\ outgoing = initSeq.outgoing + returned["increment_outgoing"]

\* C19 happens: three increments made by three threads have all returned,
\* two of them on the same counter.
C19_Witness ==
    /\ AllReturned
    /\ returned = [op \in Mutations |->
                      CASE op = "increment_incoming" -> 2
                        [] op = "increment_outgoing" -> 1
                        [] OTHER -> 0]
    /\ incoming = initSeq.incoming + 2 /\ outgoing = initSeq.outgoing + 1

\* Mutations of the store that have returned.
MutationsReturned ==
    returned["increment_incoming"] + returned["increment_outgoing"]
    + returned["set_incoming"] + returned["set_outgoing"]

C20_Inv ==
    (seqLock = "free" /\ MutationsReturned > 0) =>
        /\ seqFile = to_string(sequence_numbers)
        /\ new(seqFile) = sequence_numbers

C20_Step ==
    \A t \in Threads :
        (call[t].at = "return" /\ call'[t].at = "idle") =>
            new(seqFile') = SequenceNumber(incoming', outgoing')

\* C20: when a mutation of the sequence store returns, whatever other
\* threads are calling, the record in the file is the in-memory pair, and
\* it stays so until the next mutation begins.
C20_DiskMatchesMemory == []C20_Inv /\ [][C20_Step]_vars

\* C20 happens: a set_outgoing has returned while two other threads wait
\* for the Mutex, one to increment and one to set, and the file holds the
\* pair with the value set.
C20_Witness ==
    /\ seqLock = "free" /\ returned["set_outgoing"] = 1
    /\ call[Reader].at = "lock" /\ call[Reader].op = "increment_incoming"
    /\ call[Ticker].at = "lock" /\ call[Ticker].op = "set_incoming"
    /\ outgoing # initSeq.outgoing
    /\ new(seqFile) = sequence_numbers

\* The process is started again.
Restarted == restarts' = restarts + 1

\* C21: a store opened on a file that holds a valid record starts with the
\* incoming and outgoing values last persisted, those the store that wrote
\* the file had in memory when its last mutation returned; a store opened
\* on a missing, empty or corrupt file starts with 1 and 1.
C21_Step ==
    Restarted =>
        /\ (AllReturned /\ IsRecordText(seqFile) /\ MutationsReturned > 0) =>
              (incoming' = incoming /\ outgoing' = outgoing)
        /\ IsRecordText(seqFile) =>
              to_string(SequenceNumber(incoming', outgoing')) = seqFile
        /\ ~IsRecordText(seqFile) => (incoming' = 1 /\ outgoing' = 1)

C21_Reload == [][C21_Step]_vars

\* C21 happens: set_incoming and set_outgoing have returned and the store
\* was opened again with the two values set.
C21_Witness ==
    /\ restarts = 1 /\ AllReturned /\ MutationsReturned = 2
    /\ returned["set_incoming"] = 1 /\ returned["set_outgoing"] = 1
    /\ incoming = MaxNewSeqNo /\ outgoing = MaxNewSeqNo
    /\ initSeq = SequenceNumber(MaxNewSeqNo, MaxNewSeqNo)
    /\ seqFile = to_string(initSeq)

\* The pair in memory before the mutation thread t is making, and after it.
Before(t) ==
    IF call[t].at \in {"lock", "load", "store"}
    THEN sequence_numbers
    ELSE [sequence_numbers EXCEPT ![CounterOf(call[t].op)] = call[t].old]

After(t) ==
    IF call[t].at \in {"lock", "load", "store"}
    THEN [sequence_numbers EXCEPT ![CounterOf(call[t].op)] =
             IF call[t].op \in Increments THEN @ + 1 ELSE call[t].arg]
    ELSE sequence_numbers

\* C22: if the process dies at any point during a mutation, the counters
\* loaded when it starts again are the pair from before the mutation or
\* the pair after it.
C22_Step ==
    \A t \in Threads :
        (Restarted /\ seqLock = t) =>
            SequenceNumber(incoming', outgoing') \in {Before(t), After(t)}

C22_CrashSafe == [][C22_Step]_vars

\* No thread is inside a call on the order store.
OrdersReturned == \A t \in Threads : ocall[t].at = "idle"

\* C23: when the process stops with no call on the order store in progress
\* and the order file holding the map, and starts again on the same file,
\* every order stored before is in the store with the status it last had.
C23_Step ==
    (Restarted /\ OrdersReturned /\ deserialize(ordFile) = orders) =>
        \A id \in DOMAIN orders :
            id \in DOMAIN orders' /\ orders'[id] = orders[id]

C23_OrdersSurviveRestart == [][C23_Step]_vars

\* The call of t returns from persist with the bytes longer than the
\* region, and the map is still as the call of t left it.
CapacityExceeded(t) ==
    /\ ocall[t].op \in {"add_order", "update_order"}
    /\ ocall[t].at = "flush" /\ ocall'[t].at = "idle"
    /\ restarts' = restarts
    /\ ~Fits(ocall[t].bytes)
    /\ orders = Applied(ocall[t], ocall[t].old)

\* C24: an add or update whose serialized map is longer than the mapped
\* region returns the capacity error and leaves the store with exactly
\* the orders it held before the call.
C24_Step ==
    \A t \in Threads :
        CapacityExceeded(t) =>
            /\ oreturned'["capacity"] = oreturned["capacity"] + 1
            /\ orders' = ocall[t].old

C24_CapacityRejects == [][C24_Step]_vars

\* C25: on an acceptor an accepted NewOrderSingle with all its fields
\* whose order does not fit the mapped region is answered with a
\* BusinessMessageReject and not with an ExecutionReport.
C25_CapacityBusinessReject ==
    (AtRead /\ ~isInitiator) =>
        \A m \in NewOrderIn :
            (/\ Accepts(m) /\ m.ordFields # "missing" /\ OrderParses(m)
             /\ ~Fits(serialize(add_order(orders, m.clOrdID, Order("New"))))) =>
                LET r == process_fix_message(m)
                IN  /\ r.response.type = "Business_Message_Reject"
                    /\ r.response.type # "Execution_Report"

\* C27: once every call on the order store has returned, none of them
\* with an error of capacity, the mapped file starts with the
\* serialization of the map in memory.
C27_FileMatchesMap ==
    (OrdersReturned /\ restarts = 0 /\ oreturned["capacity"] = 0) =>
        SubSeq(ordFile, 1, Len(serialize(orders))) = serialize(orders)

\* A thread is in the middle of writing a message: it has taken its Mutex
\* and has not returned from send_message.
Writing(t) == sending[t].at \in {"write", "flush"}

\* The chunks of one message are next to each other on the wire.
Whole(w) ==
    \A i \in 1..(Len(w) - 1) :
        ~w[i].last => (w[i + 1].by = w[i].by /\ w[i + 1].n = w[i].n)

\* C26: no two threads are in the middle of writing a message at the same
\* time, and the bytes of two outbound messages are not interleaved on
\* the wire.
C26_WritesExclusive ==
    /\ \A t, u \in Threads : (Writing(t) /\ Writing(u)) => t = u
    /\ Whole(wire)

\* The four checks, on the message and the lists handed to validate.
HeaderFieldsPresent ==
    \A f \in checked.required_fields : checked.fields[f] \notin {Absent, ""}
BodyLengthParses == ParsesUsize(checked.fields["9"])
MsgTypeKnown ==
    checked.fields["35"] # Absent /\ checked.fields["35"] \in valid_msg_types
HasDefinition ==
    /\ checked.fields["35"] \in DOMAIN msgnumber_fields_map
    /\ msgnumber_fields_map[checked.fields["35"]] # NoFieldMap
TypeFieldsPresent ==
    HasDefinition =>
        \A f \in msgnumber_fields_map[checked.fields["35"]] :
            checked.fields[f] \notin {Absent, ""}

\* C29: validate returns true only when the header-required fields are
\* present and not empty, BodyLength parses as a non-negative integer,
\* MsgType is present and known, the type has a definition and the
\* fields it requires are present and not empty.
C29_ValidateChecks ==
    valid = "true" =>
        /\ HeaderFieldsPresent
        /\ BodyLengthParses
        /\ MsgTypeKnown
        /\ HasDefinition
        /\ TypeFieldsPresent

\* The buffer is text that looks like a FIX message, and FixMessage::parse
\* or validate fails on it.
FailsParseOrValidate(m) == m.utf8 /\ m.isfix /\ (~m.parse \/ ~validate(m))

\* C28: an inbound message that fails parsing or validation is dropped:
\* the counters, the session flags and the order store are unchanged,
\* nothing is sent, the reader does not die and goes on to read the next
\* message.
C28_Inv ==
    AtRead =>
        \A m \in InboundMsgs :
            FailsParseOrValidate(m) =>
                LET r == process_fix_message(m)
                IN  /\ r.incoming = incoming /\ r.outgoing = outgoing
                    /\ r.seqFile = seqFile
                    /\ r.sentLogon = sentLogon
                    /\ r.receivedLogon = receivedLogon
                    /\ r.orders = orders /\ r.ordFile = ordFile
                    /\ r.handler = "none"
                    /\ r.response = EmptyResponse
                    /\ ~r.panicked

C28_Step ==
    /\ (pc[Reader] = "read" /\ nIn' = nIn + 1 /\ inType' = "") =>
           /\ pc'[Reader] = "next" /\ exited' = "no"
           /\ UNCHANGED <<seqStore, flags, orderStore>>
    /\ (pc[Reader] = "next" /\ pc'[Reader] # "next" /\ exited' = "no") =>
           pc'[Reader] = "read"

C28_DroppedNotFatal == []C28_Inv /\ [][C28_Step]_vars

\* The first buffer was dropped without a reply and the second message
\* is accepted and answered.
C28_Witness ==
    /\ Running /\ nIn = 2 /\ accepted = 1
    /\ branch = "equal" /\ pc[Reader] = "write"
    /\ incoming = initSeq.incoming + 1
    /\ outgoing = initSeq.outgoing

\* C30: an inbound message that fixmsg2msgtype decodes as UnknownTag is
\* dropped: incoming is not advanced, no handler runs and nothing is
\* sent.
C30_UnknownTagDropped ==
    AtRead =>
        \A m \in InboundMsgs :
            m.type = "UnknownTag" =>
                LET r == process_fix_message(m)
                IN  /\ r.incoming = incoming
                    /\ r.handler = "none"
                    /\ r.response = EmptyResponse

\* The message an encoder returned, as it goes on the wire.
WireForm == replace(encoded.bytes, Pipe, <<SOH>>)

\* A field with tag 10 starts at byte i of w.
IsCheckSumField(w, i) ==
    /\ i + 2 <= Len(w)
    /\ w[i] = 49 /\ w[i + 1] = 48 /\ w[i + 2] = Equals
    /\ (i = 1 \/ w[i - 1] = SOH)

\* Where the CheckSum field of w starts: the last field with tag 10.
CheckSumAt(w) ==
    CHOOSE i \in 1..Len(w) :
        IsCheckSumField(w, i) /\ \A j \in (i + 1)..Len(w) : ~IsCheckSumField(w, j)

\* An encoder has returned a message.
Produced == encoded.by # "none" /\ encoded.bytes # Panicked

\* C31: in every message an encoder returns, the three digits after 10=
\* are the sum of all the bytes of the SOH form before the CheckSum
\* field, modulo 256.
C31_CheckSum ==
    Produced =>
        LET w == WireForm
            i == CheckSumAt(w)
        IN  /\ Len(w) = i + 6 /\ w[i + 6] = SOH
            /\ \A k \in 3..5 : w[i + k] \in 48..57
            /\ 100 * (w[i + 3] - 48) + 10 * (w[i + 4] - 48) + (w[i + 5] - 48)
                   = sum_bytes(SubSeq(w, 1, i - 1)) % 256

\* fixmap2fixmsg returned a message whose sum of bytes wrapped to 000.
C31_Witness ==
    /\ Produced /\ encoded.by = "fixmap2fixmsg"
    /\ SubSeq(WireForm, CheckSumAt(WireForm) + 3, CheckSumAt(WireForm) + 5)
           = <<48, 48, 48>>

\* The BodyLength field of w starts at byte i: the first field with tag 9.
IsBodyLengthField(w, i) ==
    /\ i + 1 <= Len(w)
    /\ w[i] = 57 /\ w[i + 1] = Equals
    /\ (i = 1 \/ w[i - 1] = SOH)

BodyLengthAt(w) ==
    CHOOSE i \in 1..Len(w) :
        IsBodyLengthField(w, i) /\ \A j \in 1..(i - 1) : ~IsBodyLengthField(w, j)

\* The separator that ends the field starting at byte i of w.
EndOfField(w, i) ==
    CHOOSE e \in i..Len(w) : w[e] = SOH /\ \A j \in i..(e - 1) : w[j] # SOH

\* C32: in every message an encoder returns, the value of BodyLength is
\* the number of bytes after the separator that ends the BodyLength field
\* up to the byte before the CheckSum field.
C32_BodyLength ==
    Produced =>
        LET w == WireForm
            b == BodyLengthAt(w)
            e == EndOfField(w, b)
        IN  SubSeq(w, b + 2, e - 1) = to_digits(CheckSumAt(w) - 1 - e)

\* The fields an encoder computes itself.
ComputedFields == {"BodyLength", "CheckSum"}

\* C33: decoding what msgtype2fixmsg built from a template, an override
\* map and a sequence number gives the type name of the template and the
\* template merged with the override map, field by field, with the
\* sequence number in MsgSeqNum and a timestamp in SendingTime; the
\* fields the encoder computes are not compared.
C33_RoundTrip ==
    (decoded.done /\ encoded.by = "msgtype2fixmsg") =>
        /\ decoded.msgtype = Value(encoded.map, "MsgType")
        /\ Keys(decoded.msg_map) = Keys(encoded.map)
        /\ \A key \in Keys(encoded.map) \cap Keys(decoded.msg_map) :
              CASE key = "MsgSeqNum" ->
                     Value(decoded.msg_map, key) = to_digits(encoded.n)
                [] key = "SendingTime" ->
                     Value(decoded.msg_map, key) \in Timestamps
                [] key \in ComputedFields -> TRUE
                [] OTHER ->
                     Value(decoded.msg_map, key) = Value(encoded.map, key)

\* A message of thread t is on the socket and t has not yet finished the
\* send path it was written on.
OnSocket(t) == wrote[t] /\ resp[t] # EmptyResponse

\* No SequenceReset has been received: nothing was read, or the one message
\* read so far was validated and is of another type.
NoResetReceived ==
    nIn = 0 \/ (nIn = 1 /\ inType \notin {"", "SEQUENCE_RESET"})

\* C34: as long as no SequenceReset is received, no two messages written
\* to the socket carry the same MsgSeqNum, whatever the interleaving of the
\* ticker, the reader and the console.
C34_NoDuplicateSeqNum ==
    NoResetReceived =>
        \A t, u \in Threads :
            (t # u /\ OnSocket(t) /\ OnSocket(u)) => resp[t].seq # resp[u].seq

\* C36: an order message that passes validation and is accepted by the
\* sequence check, but whose OrderQty or Price is not an unsigned integer,
\* is not fatal to the reader: the reader does not panic and the order
\* store is left as it was.
C36_BadNumberNotFatal ==
    \A m \in NewOrderIn \cup CancelIn :
        (AtRead /\ Accepts(m) /\ m.ordFields = "badnum") =>
            LET r == process_fix_message(m)
            IN  ~r.panicked /\ r.orders = orders

\* C38: receiving a Heartbeat never causes the engine to send a message:
\* the reader builds no response to an accepted Heartbeat.
C38_HeartbeatSilent ==
    \A m \in PlainIn :
        (AtRead /\ Accepts(m) /\ m.type = "HEARTBEAT") =>
            process_fix_message(m).response = EmptyResponse

\* Where a thread stores LAST_SENT_TIME.
StampPcs == {"stamp", "cstamp"}

\* C40: last_sent_time is set after every outbound message, whichever path
\* sent it: a thread that has written a message and incremented outgoing
\* stores LAST_SENT_TIME next.
C40_Step ==
    \A t \in Threads :
        (Running /\ pc[t] \in IncPcs /\ wrote[t] /\ pc'[t] # pc[t]
            /\ exited' = "no")
        => pc'[t] \in StampPcs

C40_StampAfterSend == [][C40_Step]_vars

\* C39: every message on the stream is processed exactly once, whatever
\* the read boundaries: when one read returns the expected message m1 and
\* the message after it, incoming advances by two; when m1 comes in two
\* reads, the first part is not processed and the read that completes it
\* advances incoming by one.
C39_ExactlyOnce ==
    \A m1 \in Framed :
        (AtRead /\ Accepts(m1)) =>
            /\ \A m2 \in Framed :
                  m2.seq = m1.seq + 1 =>
                      process_fix_message(one_read(m1, m2)).incoming = incoming + 2
            /\ process_fix_message(head(m1)) = Dropped
            /\ process_fix_message(tail(m1)).incoming = incoming + 1

\* RECEIVED_LOGON is true only when SENT_LOGON is.
ReceivedImpliesSent == receivedLogon => sentLogon

\* While the process runs, a flag that is true stays true.
FlagsStay ==
    exited' = "no" =>
        /\ sentLogon => sentLogon'
        /\ receivedLogon => receivedLogon'

\* The reader is between the two stores of the LOGON arm.
BetweenStores == pc[Reader] = "store_sent"

\* C37 as stated: in every reachable state received_logon implies
\* sent_logon, and neither flag returns to false once it is true.
C37_Original == []ReceivedImpliesSent /\ [][FlagsStay]_vars

\* C37: received_logon implies sent_logon in every state but the one
\* between the two stores of the LOGON arm, and neither flag returns to
\* false while the process runs.
C37_LogonFlags ==
    [](~BetweenStores => ReceivedImpliesSent) /\ [][FlagsStay]_vars

\* The acceptor has answered the peer's Logon: both stores are done.
C37_Witness ==
    /\ ~isInitiator /\ Running
    /\ pc[Reader] = "write" /\ inType = "LOGON"
    /\ receivedLogon /\ sentLogon

\* Instance e has detected a gap and sent a ResendRequest, and the other
\* instance has answered a ResendRequest of e.
GapAnswered(e) == eng[e].asked # NoVal /\ eng[e].answered

\* Instance e has accepted a message since it detected the gap.
Advanced(e) == eng[e].incoming > eng[e].asked

\* From the first ResendRequest on, incoming of the instance that sent it
\* is what it was.
DetectorStuck ==
    \A e \in Engines : eng[e].asked # NoVal => eng[e].incoming = eng[e].asked

====
